---- MODULE Spec2Model ----
(***************************************************************************)
(* Handicap / net-score engine of the golf scoring page                    *)
(* (src/app/group/[groupId]/page.tsx).                                     *)
(*                                                                         *)
(* JavaScript numbers are modelled as fixed-point values: a number is the  *)
(* record [k |-> "num", v |-> n] standing for n / Denom, so that           *)
(* Math.floor is a real conversion.  NaN and null are values of their own. *)
(* Arrays are sequences; hole h of the source (index h - 1) is element h.  *)
(***************************************************************************)
EXTENDS Integers, Sequences, FiniteSets

\* one call of a pure function: the function, its arguments, its result
VARIABLES fn, holeStrokeIndex, totalStrokes, scores, hcps, pars, net, charity, result

\* the groups collection of the database and the state of the scoring page
VARIABLES db, group, selectedDay, scoresByDay, handicaps, day2Adjustments,
          teeChoicesByDay, charityStrokes, treeStrokes, contestByDay

\* the texts of a distance: the two inputs, the stored note, the note as
\* the inputs show it
VARIABLES feetRaw, inchesRaw, note, distance

\* the page's error, its timers (window.setTimeout) and the three refs that
\* hold timer ids, the number of timers set so far, and the updateDoc calls
\* that have not settled
VARIABLES error, saving, timers, saveTimerRef, ctpPropagateTimerRef,
          longestDrivePropagateTimerRef, timerCount, inflight

\* what has been seen of the run: the input events and the writes
VARIABLES observed

\* the admin page: the signed-in user, the allowed addresses, the four
\* drafts of the scorecard form and its error
VARIABLES adminUser, allowedAdminEmails, day1ParsDraft, day2ParsDraft,
          day1HcpsDraft, day2HcpsDraft, scorecardError

\* the admin page's view of the groups collection, the pending edits of the
\* roster rows and the errors of its forms
VARIABLES allGroups, playerEdits, addPlayerError, createGroupError, day1LockError

engineVars == <<fn, holeStrokeIndex, totalStrokes, scores, hcps, pars, net, charity, result>>

pageVars == <<group, selectedDay, scoresByDay, handicaps, day2Adjustments,
              teeChoicesByDay, charityStrokes, treeStrokes, contestByDay>>

timerVars == <<error, saving, timers, saveTimerRef, ctpPropagateTimerRef,
               longestDrivePropagateTimerRef, timerCount, inflight, observed>>

\* what the engine calls and the page leave alone
distanceVars == <<feetRaw, inchesRaw, note, distance>>

adminVars == <<adminUser, allowedAdminEmails, day1ParsDraft, day2ParsDraft,
               day1HcpsDraft, day2HcpsDraft, scorecardError>>

rosterVars == <<allGroups, playerEdits, addPlayerError, createGroupError, day1LockError>>

notEngine == <<db, pageVars, timerVars, adminVars, distanceVars, rosterVars>>

notPage == <<engineVars, adminVars, distanceVars, rosterVars>>

vars == <<engineVars, db, pageVars, timerVars, adminVars, distanceVars, rosterVars>>

(***************************************************************************)
(* Bounds of the model.                                                    *)
(***************************************************************************)
\* numbers are multiples of 1 / Denom
Denom == 2
\* largest totalStrokes handed to strokesForHole alone
MaxTotal == 37
\* largest totalStrokes handed to the functions that take a round
MaxRoundTotal == 20
\* largest stroke index handed to strokesForHole alone
MaxIdx == 20
\* largest charity + tree penalty
MaxPenalty == 3
\* largest numbers typed into the feet and the inches input
MaxFeet == 11

MaxInches == 25

(***************************************************************************)
(* Program constants.                                                      *)
(***************************************************************************)
HOLE_COUNT == 18

(***************************************************************************)
(* JavaScript values.                                                      *)
(***************************************************************************)
Num(n) == [k |-> "num", v |-> n]

NaN == [k |-> "nan", v |-> 0]

Null == [k |-> "null", v |-> 0]

FromInt(i) == Num(i * Denom)

\* A value that is neither a number nor null (a string found in a document)
NotANumber == [k |-> "str", v |-> 0]

\* typeof x === "number" (true of NaN as well)
typeofNumber(x) == x.k \in {"num", "nan"}

\* Number.isFinite(x)
isFinite(x) == x.k = "num"

\* Math.floor(x)
floor(x) == IF x.k = "num" THEN Num((x.v \div Denom) * Denom) ELSE NaN

\* a + b and a - b on numbers
plus(a, b) == IF a.k = "num" /\ b.k = "num" THEN Num(a.v + b.v) ELSE NaN

minus(a, b) == IF a.k = "num" /\ b.k = "num" THEN Num(a.v - b.v) ELSE NaN

\* a < b, a > b, a <= b: false whenever an operand is NaN
lessThan(a, b) == a.k = "num" /\ b.k = "num" /\ a.v < b.v

\* arr[i] of the source, for the 1-based position i: undefined past the end
at(arr, i) == IF i \in 1..Len(arr) THEN arr[i] ELSE Null

\* An optional array: Array.isArray(x) is x.isArray
NoArray == [isArray |-> FALSE, elems |-> <<>>]

Arr(s) == [isArray |-> TRUE, elems |-> s]

\* Array.isArray(x) && x.length === HOLE_COUNT
isTable(x) == x.isArray /\ Len(x.elems) = HOLE_COUNT

(***************************************************************************)
(* JavaScript strings are sequences of one-character strings.  The         *)
(* characters of the model are the blank, the digits, the letters, and     *)
(* the punctuation the page reads or writes: ' " - . ,                     *)
(***************************************************************************)
Whitespace == {" "}

\* the digit d is Digits[d + 1]
Digits == <<"0", "1", "2", "3", "4", "5", "6", "7", "8", "9">>

isDigit(c) == \E d \in 1..10 : Digits[d] = c

digitValue(c) == (CHOOSE d \in 1..10 : Digits[d] = c) - 1

\* s.trim()
RECURSIVE trimStart(_)
trimStart(s) ==
    IF s # <<>> /\ Head(s) \in Whitespace THEN trimStart(Tail(s)) ELSE s

RECURSIVE trimEnd(_)
trimEnd(s) ==
    IF s # <<>> /\ s[Len(s)] \in Whitespace
    THEN trimEnd(SubSeq(s, 1, Len(s) - 1))
    ELSE s

trim(s) == trimEnd(trimStart(s))

\* String(n) and `${n}` of a non-negative integer n
RECURSIVE toDigits(_)
toDigits(n) ==
    IF n < 10
    THEN <<Digits[n + 1]>>
    ELSE toDigits(n \div 10) \o <<Digits[(n % 10) + 1]>>

\* String(x) of a whole number
numberToString(x) ==
    IF x.v < 0 THEN <<"-">> \o toDigits((0 - x.v) \div Denom) ELSE toDigits(x.v \div Denom)

\* the value of a run of digits
RECURSIVE digitsValue(_)
digitsValue(s) ==
    IF s = <<>>
    THEN 0
    ELSE digitsValue(SubSeq(s, 1, Len(s) - 1)) * 10 + digitValue(s[Len(s)])

allDigits(s) == \A i \in 1..Len(s) : isDigit(s[i])

RECURSIVE power10(_)
power10(k) == IF k = 0 THEN 1 ELSE 10 * power10(k - 1)

\* Number(s): blanks are trimmed, the empty string is 0, a decimal literal
\* (sign, digits, an optional fraction) is its value, rounded towards zero
\* to a multiple of 1 / Denom, and everything else is NaN
toNumber(s) ==
    LET t == trim(s)
        signed == t # <<>> /\ Head(t) \in {"-", "+"}
        body == IF signed THEN Tail(t) ELSE t
        dots == {i \in 1..Len(body) : body[i] = "."}
        dot == IF dots = {} THEN Len(body) + 1 ELSE CHOOSE i \in dots : \A j \in dots : i <= j
        whole == SubSeq(body, 1, dot - 1)
        frac == SubSeq(body, dot + 1, Len(body))
        magnitude == digitsValue(whole) * Denom
                       + (digitsValue(frac) * Denom) \div power10(Len(frac))
    IN  IF t = <<>> THEN Num(0)
        ELSE IF Cardinality(dots) <= 1 /\ allDigits(whole) /\ allDigits(frac)
                /\ Len(whole) + Len(frac) > 0
             THEN Num(IF signed /\ Head(t) = "-" THEN 0 - magnitude ELSE magnitude)
             ELSE NaN

\* s.toLowerCase()
Lower == <<"a", "b", "c", "d", "e", "f", "g", "h", "i", "j", "k", "l", "m",
           "n", "o", "p", "q", "r", "s", "t", "u", "v", "w", "x", "y", "z">>

Upper == <<"A", "B", "C", "D", "E", "F", "G", "H", "I", "J", "K", "L", "M",
           "N", "O", "P", "Q", "R", "S", "T", "U", "V", "W", "X", "Y", "Z">>

isUpper(c) == \E i \in 1..26 : Upper[i] = c

lowerChar(c) == IF isUpper(c) THEN Lower[CHOOSE i \in 1..26 : Upper[i] = c] ELSE c

toLowerCase(s) == [i \in 1..Len(s) |-> lowerChar(s[i])]

\* a.localeCompare(b): the strings are compared letter by letter without
\* regard to case (blank and punctuation first, then digits, then letters);
\* strings equal up to case are ordered by the first letter whose case
\* differs, lower case first.  The result is -1, 0 or 1.
Collation == <<" ", "'", "\"", "-", ",", ".">> \o Digits \o Lower

primary(c) == CHOOSE i \in 1..Len(Collation) : Collation[i] = lowerChar(c)

RECURSIVE comparePrimary(_, _, _)
comparePrimary(a, b, i) ==
    IF i > Len(a) /\ i > Len(b) THEN 0
    ELSE IF i > Len(a) THEN -1
    ELSE IF i > Len(b) THEN 1
    ELSE IF primary(a[i]) < primary(b[i]) THEN -1
    ELSE IF primary(a[i]) > primary(b[i]) THEN 1
    ELSE comparePrimary(a, b, i + 1)

RECURSIVE compareCase(_, _, _)
compareCase(a, b, i) ==
    IF i > Len(a) THEN 0
    ELSE IF a[i] = b[i] THEN compareCase(a, b, i + 1)
    ELSE IF isUpper(b[i]) THEN -1
    ELSE 1

localeCompare(a, b) ==
    IF comparePrimary(a, b, 1) # 0
    THEN comparePrimary(a, b, 1)
    ELSE compareCase(a, b, 1)

(***************************************************************************)
(* Distances of the closest-to-pin contest, kept as text.                  *)
(***************************************************************************)
\* Math.max(0, x)
max0(x) == IF x.k = "num" THEN (IF x.v < 0 THEN FromInt(0) ELSE x) ELSE NaN

\* the mutant writes the two numbers as they come
formatFeetInchesAsGiven(feetText, inchesText) ==
    LET feetTrim == trim(feetText)
        inchesTrim == trim(inchesText)
        feetNum == IF feetTrim # <<>> THEN max0(floor(toNumber(feetTrim))) ELSE FromInt(0)
        inchesNum == IF inchesTrim # <<>> THEN max0(floor(toNumber(inchesTrim))) ELSE FromInt(0)
    IN  IF feetTrim = <<>> /\ inchesTrim = <<>> THEN <<>>
        ELSE IF ~isFinite(feetNum) \/ ~isFinite(inchesNum) THEN <<>>
        ELSE numberToString(feetNum) \o <<"'", " ">> \o numberToString(inchesNum) \o <<"\"">>

formatFeetInches(feetText, inchesText) ==
    LET feetTrim == trim(feetText)
        inchesTrim == trim(inchesText)
        feetNum == IF feetTrim # <<>> THEN max0(floor(toNumber(feetTrim))) ELSE FromInt(0)
        inchesNum == IF inchesTrim # <<>> THEN max0(floor(toNumber(inchesTrim))) ELSE FromInt(0)
        totalInches == Num(feetNum.v * 12 + inchesNum.v)
        normFeet == Num((totalInches.v \div (12 * Denom)) * Denom)
        normInches == Num(totalInches.v % (12 * Denom))
    IN  IF feetTrim = <<>> /\ inchesTrim = <<>> THEN <<>>
        ELSE IF ~isFinite(feetNum) \/ ~isFinite(inchesNum) THEN <<>>
        ELSE numberToString(normFeet) \o <<"'", " ">> \o numberToString(normInches) \o <<"\"">>

\* the end of the longest run of digits that starts at p
RECURSIVE runEnd(_, _)
runEnd(s, p) == IF p < Len(s) /\ isDigit(s[p + 1]) THEN runEnd(s, p + 1) ELSE p

\* the first position from p on that holds no blank
RECURSIVE skipBlanks(_, _)
skipBlanks(s, p) ==
    IF p <= Len(s) /\ s[p] \in Whitespace THEN skipBlanks(s, p + 1) ELSE p

\* the literal lit stands at p, in either case
literalAt(s, p, lit) ==
    /\ p + Len(lit) - 1 <= Len(s)
    /\ toLowerCase(SubSeq(s, p, p + Len(lit) - 1)) = lit

\* /(\d+)\s*(?:unit|...)\s*(\d+)?/i tried at position p: digits, blanks, one
\* of the units, blanks, and digits if there are any; the mutant allows no
\* blank between the unit and the second number
matchAtNoBlanks(s, p, units) ==
    LET e == runEnd(s, p)
        q == skipBlanks(s, e + 1)
        found == {i \in 1..Len(units) : literalAt(s, q, units[i])}
        unit == units[CHOOSE i \in found : \A j \in found : i <= j]
        r == q + Len(unit)
    IN  IF ~isDigit(s[p]) \/ found = {}
        THEN [matched |-> FALSE, feet |-> <<>>, inches |-> <<>>]
        ELSE [matched |-> TRUE,
              feet |-> SubSeq(s, p, e),
              inches |-> IF r <= Len(s) /\ isDigit(s[r]) THEN SubSeq(s, r, runEnd(s, r)) ELSE <<>>]

matchAt(s, p, units) ==
    LET e == runEnd(s, p)
        q == skipBlanks(s, e + 1)
        found == {i \in 1..Len(units) : literalAt(s, q, units[i])}
        unit == units[CHOOSE i \in found : \A j \in found : i <= j]
        r == skipBlanks(s, q + Len(unit))
    IN  IF ~isDigit(s[p]) \/ found = {}
        THEN [matched |-> FALSE, feet |-> <<>>, inches |-> <<>>]
        ELSE [matched |-> TRUE,
              feet |-> SubSeq(s, p, e),
              inches |-> IF r <= Len(s) /\ isDigit(s[r]) THEN SubSeq(s, r, runEnd(s, r)) ELSE <<>>]

\* raw.match(regex): the match at the leftmost position that has one
RECURSIVE matchFrom(_, _, _)
matchFrom(s, p, units) ==
    IF p > Len(s) THEN [matched |-> FALSE, feet |-> <<>>, inches |-> <<>>]
    ELSE IF matchAt(s, p, units).matched THEN matchAt(s, p, units)
    ELSE matchFrom(s, p + 1, units)

\* raw.match(/\d+/g): the runs of digits from p on
RECURSIVE digitRuns(_, _)
digitRuns(s, p) ==
    IF p > Len(s) THEN <<>>
    ELSE IF isDigit(s[p])
         THEN <<SubSeq(s, p, runEnd(s, p))>> \o digitRuns(s, runEnd(s, p) + 1)
         ELSE digitRuns(s, p + 1)

parseFeetInches(text) ==
    LET raw == trim(text)
        apostropheMatch == matchFrom(raw, 1, <<(<<"'">>)>>)
        ftInMatch == matchFrom(raw, 1, <<(<<"f", "t">>), (<<"f", "e", "e", "t">>)>>)
        nums == digitRuns(raw, 1)
    IN  IF raw = <<>> THEN [feet |-> <<>>, inches |-> <<>>]
        ELSE IF apostropheMatch.matched
             THEN [feet |-> apostropheMatch.feet, inches |-> apostropheMatch.inches]
        ELSE IF ftInMatch.matched
             THEN [feet |-> ftInMatch.feet, inches |-> ftInMatch.inches]
        ELSE IF Len(nums) >= 2 THEN [feet |-> nums[1], inches |-> nums[2]]
        ELSE IF Len(nums) = 1 THEN [feet |-> nums[1], inches |-> <<>>]
        ELSE [feet |-> <<>>, inches |-> <<>>]

(***************************************************************************)
(* Reading a group document.  A JavaScript object is a function from its   *)
(* keys; an optional object carries isObject.                              *)
(***************************************************************************)
NoObject == [isObject |-> FALSE, map |-> <<>>]

Obj(f) == [isObject |-> TRUE, map |-> f]

\* input?.[p]: the value under key p, or undefined
lookup(input, p, undefined) ==
    IF input.isObject /\ p \in DOMAIN input.map THEN input.map[p] ELSE undefined

Range(s) == {s[i] : i \in 1..Len(s)}

RECURSIVE uniqFrom(_, _, _)
uniqFrom(values, i, out) ==
    IF i > Len(values)
    THEN out
    ELSE LET key == trim(values[i])
             lowered == toLowerCase(key)
         IN  IF key = <<>> \/ \E j \in 1..Len(out) : toLowerCase(out[j]) = lowered
             THEN uniqFrom(values, i + 1, out)
             ELSE uniqFrom(values, i + 1, Append(out, key))

uniqPreserveOrder(values) == uniqFrom(values, 1, <<>>)

coerceScoreTable(players, input) ==
    [p \in Range(players) |->
        LET existing == lookup(input, p, NoArray)
        IN  IF existing.isArray
            THEN [i \in 1..HOLE_COUNT |->
                    LET v == at(existing.elems, i)
                    IN  IF typeofNumber(v) /\ isFinite(v) THEN v ELSE Null]
            ELSE [i \in 1..HOLE_COUNT |-> Null]]

\* The stored scores field: byDay holds the keys "day1" and "day2" when the
\* object has them, flat holds the keys of the old one-day format.
coerceScoresByDay(players, input) ==
    LET isOld == input.isObject /\ "day1" \notin DOMAIN input.byDay
                               /\ "day2" \notin DOMAIN input.byDay
        day1Raw == IF isOld THEN Obj(input.flat)
                   ELSE IF input.isObject /\ "day1" \in DOMAIN input.byDay
                        THEN input.byDay["day1"] ELSE NoObject
        day2Raw == IF isOld THEN NoObject
                   ELSE IF input.isObject /\ "day2" \in DOMAIN input.byDay
                        THEN input.byDay["day2"] ELSE NoObject
    IN  [day1 |-> coerceScoreTable(players, day1Raw),
         day2 |-> coerceScoreTable(players, day2Raw)]

coerceNumberMap(players, input, defaultValue) ==
    [p \in Range(players) |->
        LET v == lookup(input, p, Null)
        IN  IF typeofNumber(v) /\ isFinite(v) THEN v ELSE defaultValue]

TeeKeys == {"combo", "three", "four", "stampede", "tips"}

coerceTeeMap(players, input, defaultValue) ==
    [p \in Range(players) |->
        LET v == lookup(input, p, "")
        IN  IF v \in TeeKeys THEN v ELSE defaultValue]

\* the mutant gives the bonus on both days
teeBonusForDayBothDays(day, tee) ==
    IF tee = "three" THEN FromInt(1)
    ELSE IF tee = "four" THEN FromInt(2)
    ELSE FromInt(0)

teeBonusForDay(day, tee) ==
    IF day = "day1"
    THEN IF tee = "three" THEN FromInt(1)
         ELSE IF tee = "four" THEN FromInt(2)
         ELSE FromInt(0)
    ELSE FromInt(0)

(***************************************************************************)
(* The engine.                                                             *)
(***************************************************************************)
RECURSIVE sumFrom(_, _)
sumFrom(arr, i) ==
    IF i > Len(arr) THEN FromInt(0)
    ELSE LET rest == sumFrom(arr, i + 1)
         IN  IF typeofNumber(arr[i]) THEN plus(arr[i], rest) ELSE rest

sum(arr) == sumFrom(arr, 1)

validScore(v) == typeofNumber(v) /\ isFinite(v) /\ v.v >= 0

isCompleteRound(arr) ==
    /\ Len(arr) = HOLE_COUNT
    /\ \A i \in 1..Len(arr) : validScore(arr[i])

RECURSIVE sumNumbersFrom(_, _)
sumNumbersFrom(values, i) ==
    IF i > Len(values) THEN FromInt(0)
    ELSE plus(values[i], sumNumbersFrom(values, i + 1))

sumNumbers(values) == sumNumbersFrom(values, 1)

\* Variants of strokesForHole with a slip in them, which the properties
\* below must tell from the code: no upper bound on the stroke index,
strokesForHoleNoUpperBound(h, total) ==
    IF ~isFinite(h) \/ lessThan(h, FromInt(1)) THEN FromInt(0)
    ELSE LET s == floor(total)
         IN  IF ~isFinite(s) \/ s.v <= 0 THEN FromInt(0)
             ELSE IF lessThan(s, h) THEN FromInt(0)
             ELSE FromInt(1 + ((s.v - h.v) \div (18 * Denom)))

\* s <= holeStrokeIndex in place of s < holeStrokeIndex,
strokesForHoleOffByOne(h, total) ==
    IF ~isFinite(h) \/ lessThan(h, FromInt(1)) \/ lessThan(FromInt(18), h) THEN FromInt(0)
    ELSE LET s == floor(total)
         IN  IF ~isFinite(s) \/ s.v <= 0 THEN FromInt(0)
             ELSE IF s.v <= h.v THEN FromInt(0)
             ELSE FromInt(1 + ((s.v - h.v) \div (18 * Denom)))

\* a cycle of 17 holes in place of 18,
strokesForHoleCycle17(h, total) ==
    IF ~isFinite(h) \/ lessThan(h, FromInt(1)) \/ lessThan(FromInt(18), h) THEN FromInt(0)
    ELSE LET s == floor(total)
         IN  IF ~isFinite(s) \/ s.v <= 0 THEN FromInt(0)
             ELSE IF lessThan(s, h) THEN FromInt(0)
             ELSE FromInt(1 + ((s.v - h.v) \div (17 * Denom)))

\* and at most one stroke a hole, whatever the total.
strokesForHoleNoWrap(h, total) ==
    IF ~isFinite(h) \/ lessThan(h, FromInt(1)) \/ lessThan(FromInt(18), h) THEN FromInt(0)
    ELSE LET s == floor(total)
         IN  IF ~isFinite(s) \/ s.v <= 0 THEN FromInt(0)
             ELSE IF lessThan(s, h) THEN FromInt(0)
             ELSE FromInt(1)

strokesForHole(h, total) ==
    IF ~isFinite(h) \/ lessThan(h, FromInt(1)) \/ lessThan(FromInt(18), h) THEN FromInt(0)
    ELSE LET s == floor(total)
         IN  IF ~isFinite(s) \/ s.v <= 0 THEN FromInt(0)
             ELSE IF lessThan(s, h) THEN FromInt(0)
             ELSE FromInt(1 + ((s.v - h.v) \div (18 * Denom)))

RECURSIVE strokesUsedFrom(_, _, _, _)
strokesUsedFrom(arr, table, total, i) ==
    IF i > HOLE_COUNT THEN FromInt(0)
    ELSE LET rest == strokesUsedFrom(arr, table, total, i + 1)
         IN  IF ~validScore(at(arr, i)) THEN rest
             ELSE plus(strokesForHole(table[i], total), rest)

\* A variant that deducts the whole handicap from an unfinished round too.
computeNetRunningTotalAlwaysDeducts(arr, table, total) ==
    LET gross == sum(arr)
    IN  IF ~isTable(table)
        THEN minus(gross, floor(total))
        ELSE minus(gross, strokesUsedFrom(arr, table.elems, total, 1))

computeNetRunningTotal(arr, table, total) ==
    LET gross == sum(arr)
    IN  IF ~isTable(table)
        THEN IF isCompleteRound(arr) THEN minus(gross, floor(total)) ELSE gross
        ELSE minus(gross, strokesUsedFrom(arr, table.elems, total, 1))

RECURSIVE netTotalFrom(_, _, _, _)
netTotalFrom(arr, table, total, i) ==
    IF i > HOLE_COUNT THEN FromInt(0)
    ELSE plus(minus(arr[i], strokesForHole(table[i], total)),
              netTotalFrom(arr, table, total, i + 1))

\* Variants: one that does not look at the par table before summing it,
computeNetToParNoParCheck(arr, parTable, table, total) ==
    IF ~isCompleteRound(arr) THEN Null
    ELSE LET parsTotal == sumNumbers(parTable.elems)
         IN  IF isTable(table)
             THEN minus(netTotalFrom(arr, table.elems, total, 1), parsTotal)
             ELSE minus(minus(sum(arr), floor(total)), parsTotal)

\* and one that allocates no strokes when it has a stroke-index table.
computeNetToParGrossByHole(arr, parTable, table, total) ==
    IF ~isCompleteRound(arr) THEN Null
    ELSE IF ~isTable(parTable) THEN Null
    ELSE LET parsTotal == sumNumbers(parTable.elems)
         IN  IF isTable(table)
             THEN minus(sum(arr), parsTotal)
             ELSE minus(minus(sum(arr), floor(total)), parsTotal)

computeNetToPar(arr, parTable, table, total) ==
    IF ~isCompleteRound(arr) THEN Null
    ELSE IF ~isTable(parTable) THEN Null
    ELSE LET parsTotal == sumNumbers(parTable.elems)
         IN  IF isTable(table)
             THEN minus(netTotalFrom(arr, table.elems, total, 1), parsTotal)
             ELSE minus(minus(sum(arr), floor(total)), parsTotal)

RECURSIVE soFarFrom(_, _, _)
soFarFrom(arr, parTable, i) ==
    IF i > HOLE_COUNT THEN [gross |-> FromInt(0), par |-> FromInt(0), holes |-> 0]
    ELSE LET rest == soFarFrom(arr, parTable, i + 1)
         IN  IF ~validScore(at(arr, i)) THEN rest
             ELSE [gross |-> plus(at(arr, i), rest.gross),
                   par   |-> plus(parTable[i], rest.par),
                   holes |-> rest.holes + 1]

\* A variant that counts the par of every hole, played or not.
computeToParSoFarAllPars(arr, parTable) ==
    IF ~isTable(parTable) THEN Null
    ELSE LET acc == soFarFrom(arr, parTable.elems, 1)
         IN  IF acc.holes = 0 THEN Null
             ELSE minus(acc.gross, sumNumbers(parTable.elems))

computeToParSoFar(arr, parTable) ==
    IF ~isTable(parTable) THEN Null
    ELSE LET acc == soFarFrom(arr, parTable.elems, 1)
         IN  IF acc.holes = 0 THEN Null ELSE minus(acc.gross, acc.par)

\* A variant that deducts the penalty from an unfinished round too.
applyCharityAtEndAlways(n, arr, penalty) ==
    LET c == floor(penalty)
    IN  IF ~isFinite(c) \/ c.v <= 0 THEN n ELSE minus(n, c)

applyCharityAtEnd(n, arr, penalty) ==
    LET c == floor(penalty)
    IN  IF ~isFinite(c) \/ c.v <= 0 THEN n
        ELSE IF isCompleteRound(arr) THEN minus(n, c) ELSE n

(***************************************************************************)
(* Inputs of the engine.  The page calls the engine with the player's      *)
(* score array of the selected day, the day's par and stroke-index tables  *)
(* of the group document and the player's allocation and penalty strokes;  *)
(* all of them come from the document and are drawn here from bounded      *)
(* families.                                                               *)
(***************************************************************************)
Holes == 1..HOLE_COUNT

\* totalStrokes: every multiple of 1/Denom in [-2, MaxTotal], and NaN
TotalVals == {Num(n) : n \in (-2 * Denom)..(MaxTotal * Denom)} \cup {NaN}

\* totalStrokes of a round: every multiple of 1/Denom in [-2, MaxRoundTotal], and NaN
RoundTotalVals == {Num(n) : n \in (-2 * Denom)..(MaxRoundTotal * Denom)} \cup {NaN}

\* stroke indexes: every multiple of 1/Denom in [-1, MaxIdx], and NaN
IdxVals == {Num(n) : n \in (-1 * Denom)..(MaxIdx * Denom)} \cup {NaN}

\* charity + tree strokes
PenaltyVals == {Num(n) : n \in (-1 * Denom)..(MaxPenalty * Denom)} \cup {NaN}

\* allocation and penalty strokes of a leaderboard row, which computes the
\* row's toPar next to its net
RowTotalVals == {FromInt(0), FromInt(10)}

RowPenaltyVals == {FromInt(0), FromInt(2)}

\* a net total handed to applyCharityAtEnd
NetVals == {FromInt(n) : n \in {-18, 0, 62, 72}}

\* complete rounds: eighteen 4s, and rounds whose scores vary by hole
BaseRound(p) ==
    [i \in Holes |-> IF p = 0 THEN FromInt(4) ELSE FromInt(3 + ((i * p) % 3))]

\* the holes played so far: the first n holes, one hole alone, all but one
ScoredSets ==
    {1..n : n \in 0..HOLE_COUNT}
        \cup {{h} : h \in Holes}
        \cup {Holes \ {h} : h \in Holes}

\* a stored score below zero, which coerceScoreTable keeps (0: none)
BadHoles == {0, 1}

Round(p, scored, bad) ==
    [i \in Holes |->
        IF i = bad THEN FromInt(-1)
        ELSE IF i \in scored THEN BaseRound(p)[i]
        ELSE Null]

\* scores[p] ?? [] gives the empty array for a player without a row
Rounds ==
    {Round(p, scored, bad) : p \in {0, 1}, scored \in ScoredSets, bad \in BadHoles}
        \cup {<<>>}

\* stroke-index tables: absent, one entry short, 1..18, two other
\* permutations, and two corrupted tables (a duplicate, an entry of 19)
Identity == [i \in Holes |-> FromInt(i)]

Permutation(m) == [i \in Holes |-> FromInt(((i * m) % HOLE_COUNT) + 1)]

HcpTables ==
    {NoArray,
     Arr(SubSeq(Identity, 1, HOLE_COUNT - 1)),
     Arr(Identity),
     Arr(Permutation(5)),
     Arr(Permutation(17)),
     Arr([Identity EXCEPT ![2] = FromInt(1)]),
     Arr([Identity EXCEPT ![HOLE_COUNT] = FromInt(19)])}

\* par tables: absent, one entry short, eighteen 4s, pars 3..5
ParTables ==
    {NoArray,
     Arr([i \in 1..(HOLE_COUNT - 1) |-> FromInt(4)]),
     Arr([i \in Holes |-> FromInt(4)]),
     Arr([i \in Holes |-> FromInt(3 + (i % 3))])}

(***************************************************************************)
(* The group document.  A string field that may be null or missing is a    *)
(* record with isNull; hole keys of the contest maps are decimal strings.  *)
(***************************************************************************)
NullStr == [isNull |-> TRUE, s |-> <<>>]

Str(s) == [isNull |-> FALSE, s |-> s]

\* x ?? ""
orEmpty(x) == IF x.isNull THEN <<>> ELSE x.s

EmptyContestEntry == [hole |-> Null, winner |-> NullStr, note |-> NullStr]

EmptyDayContest ==
    [closestToPinByHole |-> NoObject,
     closestToPin |-> EmptyContestEntry,
     longestDrive |-> EmptyContestEntry]

NoScores == [isObject |-> FALSE, byDay |-> <<>>, flat |-> <<>>]

EmptyDoc ==
    [groupName |-> NullStr,
     playerNames |-> NoArray,
     playerNamesByDay |-> [day1 |-> NoArray, day2 |-> NoArray],
     scores |-> NoScores,
     handicaps |-> NoObject,
     day2HandicapAdjustments |-> NoObject,
     teeChoices |-> [day1 |-> NoObject, day2 |-> NoObject],
     charityStrokes |-> NoObject,
     treeStrokes |-> NoObject,
     day1ScoresLocked |-> FALSE,
     tournamentId |-> NullStr,
     contest |-> [day1 |-> EmptyDayContest, day2 |-> EmptyDayContest],
     tournament |-> [day1Pars |-> NoArray, day2Pars |-> NoArray,
                     day1Hcps |-> NoArray, day2Hcps |-> NoArray]]

\* the error state of the page: null or one of its messages
NoError == "null"

GroupIds == {"g1", "g2", "g3"}

\* the group the page shows
groupId == "g1"

DayKeys == {"day1", "day2"}

NoGroup == [isNull |-> TRUE, data |-> EmptyDoc]

\* values.filter(Boolean) on a list of strings
filterBoolean(values) == SelectSeq(values, LAMBDA v : v # <<>>)

coerceClosestToPinByHoleFromDoc(input) ==
    LET map == input.closestToPinByHole
        legacy == input.closestToPin
    IN  IF map.isObject
        THEN [hole \in DOMAIN map.map |->
                [winner |-> orEmpty(map.map[hole].winner),
                 note |-> orEmpty(map.map[hole].note)]]
        ELSE IF legacy.hole.k # "null"
        THEN [hole \in {numberToString(legacy.hole)} |->
                [winner |-> orEmpty(legacy.winner), note |-> orEmpty(legacy.note)]]
        ELSE <<>>

\* the text of a stored contest entry
contestEntryState(entry) ==
    [hole |-> IF entry.hole.k # "null" THEN numberToString(entry.hole) ELSE <<>>,
     winner |-> orEmpty(entry.winner),
     note |-> orEmpty(entry.note)]

EmptyEntryState == [hole |-> <<>>, winner |-> <<>>, note |-> <<>>]

InitialContestByDay ==
    [d \in DayKeys |->
        [closestToPinByHole |-> <<>>,
         legacyClosestToPin |-> EmptyEntryState,
         longestDrive |-> EmptyEntryState]]

\* the listener is called with the document when it subscribes and whenever
\* the document has changed
snapshotReady == group.isNull \/ group.data # db[groupId]

\* The snapshot listener of the group document.
OnSnapshot ==
    LET data == db[groupId]
        legacy == filterBoolean(IF data.playerNames.isArray THEN data.playerNames.elems ELSE <<>>)
        d1 == filterBoolean(IF data.playerNamesByDay.day1.isArray
                            THEN data.playerNamesByDay.day1.elems ELSE legacy)
        d2 == filterBoolean(IF data.playerNamesByDay.day2.isArray
                            THEN data.playerNamesByDay.day2.elems ELSE legacy)
        allPlayers == uniqPreserveOrder(d1 \o d2)
    IN  /\ snapshotReady
        /\ group' = [isNull |-> FALSE, data |-> data]
        /\ scoresByDay' = coerceScoresByDay(allPlayers, data.scores)
        /\ handicaps' = coerceNumberMap(allPlayers, data.handicaps, FromInt(0))
        /\ day2Adjustments' =
               coerceNumberMap(allPlayers, data.day2HandicapAdjustments, FromInt(0))
        /\ teeChoicesByDay' =
               [day1 |-> coerceTeeMap(allPlayers, data.teeChoices.day1, "combo"),
                day2 |-> coerceTeeMap(allPlayers, data.teeChoices.day2, "combo")]
        /\ charityStrokes' = coerceNumberMap(allPlayers, data.charityStrokes, FromInt(0))
        /\ treeStrokes' = coerceNumberMap(allPlayers, data.treeStrokes, FromInt(0))
        /\ contestByDay' =
               [d \in DayKeys |->
                   [closestToPinByHole |-> coerceClosestToPinByHoleFromDoc(data.contest[d]),
                    legacyClosestToPin |-> contestEntryState(data.contest[d].closestToPin),
                    longestDrive |-> contestEntryState(data.contest[d].longestDrive)]]
        /\ UNCHANGED <<db, selectedDay>>
        /\ UNCHANGED timerVars
        /\ UNCHANGED notPage

\* The Day 1 and Day 2 buttons.
SelectDay ==
    /\ ~group.isNull
    /\ error = NoError
    /\ \E d \in DayKeys : selectedDay' = d
    /\ UNCHANGED <<db, group, scoresByDay, handicaps, day2Adjustments,
                   teeChoicesByDay, charityStrokes, treeStrokes, contestByDay>>
    /\ UNCHANGED timerVars
    /\ UNCHANGED notPage

\* the record of what has been seen: the number of input events and the
\* last of them, the time since the last scheduleSave call (up to the
\* delay), the calls that started a burst, the edits made since the burst
\* started, the updateDoc calls of scheduleSave with what was known when
\* the last was issued, and the last fan-out
NothingObserved ==
    [events |-> 0,
     lastEvent |-> [kind |-> "none"],
     sinceLastCall |-> 0,
     lastPatch |-> [field |-> "none"],
     bursts |-> 0,
     edits |-> {},
     saves |-> 0,
     lastSave |-> [issued |-> FALSE],
     fanOuts |-> 0,
     lastFanOut |-> [issued |-> FALSE]]

(***************************************************************************)
(* Timers and writes.  A timer is a record with its id, its kind, the time *)
(* since it was set and what its callback holds; a write is an updateDoc   *)
(* call that has not settled.                                              *)
(***************************************************************************)
\* the delay of scheduleSave and of the two propagations, in milliseconds
SaveDelay == 400

PropagateDelay == 700

delayOf(kind) == IF kind = "save" THEN SaveDelay ELSE PropagateDelay

\* window.clearTimeout(ref) when the ref holds an id
clearTimeoutNever(ts, ref) == ts

clearTimeout(ts, ref) == {t \in ts : t.id # ref}

\* window.setTimeout(callback, delay): the callback holds payload
setTimeout(ts, id, kind, payload) ==
    ts \cup {[id |-> id, kind |-> kind, age |-> 0, payload |-> payload]}

holeStringToNumber(s) ==
    LET n == toNumber(s)
    IN  IF ~isFinite(n) THEN Null
        ELSE IF ~lessThan(FromInt(0), n) THEN Null
        ELSE floor(n)

\* s.trim() ? s.trim() : null
trimOrNull(s) == IF trim(s) # <<>> THEN Str(trim(s)) ELSE NullStr

normalizeContestEntry(input) ==
    [hole |-> IF input.hole # <<>> THEN holeStringToNumber(input.hole) ELSE Null,
     winner |-> trimOrNull(input.winner),
     note |-> trimOrNull(input.note)]

normalizeWinnerNote(input) ==
    [winner |-> trimOrNull(input.winner), note |-> trimOrNull(input.note)]

normalizeClosestToPinByHoleState(input) ==
    LET kept == {hole \in DOMAIN input :
                    \/ ~normalizeWinnerNote(input[hole]).winner.isNull
                    \/ ~normalizeWinnerNote(input[hole]).note.isNull}
    IN  [hole \in kept |-> normalizeWinnerNote(input[hole])]

\* the contest field built by the three contest handlers from the next
\* local state
contestPatch(next) ==
    [group.data.contest EXCEPT
        ![selectedDay] =
            [closestToPinByHole |->
                 Obj(normalizeClosestToPinByHoleState(next[selectedDay].closestToPinByHole)),
             closestToPin |-> normalizeContestEntry(next[selectedDay].legacyClosestToPin),
             longestDrive |-> normalizeContestEntry(next[selectedDay].longestDrive)]]

\* the scores field written by the score inputs
scoresPatch(nextScoresByDay) ==
    [isObject |-> TRUE,
     byDay |-> [d \in DayKeys |->
                   Obj([p \in DOMAIN nextScoresByDay[d] |-> Arr(nextScoresByDay[d][p])])],
     flat |-> <<>>]

\* map with key set to value
withKey(map, key, value) ==
    [k \in DOMAIN map \cup {key} |-> IF k = key THEN value ELSE map[k]]

\* updateDoc(ref, fields) on a stored document
applyWrite(doc, w) ==
    CASE w.field = "scores" -> [doc EXCEPT !.scores = w.value]
      [] w.field = "contest" -> [doc EXCEPT !.contest = w.value]
      [] w.field = "tournament" -> [doc EXCEPT !.tournament = w.value]
      [] w.field = "closestToPinByHole" ->
            [doc EXCEPT !.contest[w.day].closestToPinByHole =
                Obj(withKey(IF @.isObject THEN @.map ELSE <<>>, w.holeKey, w.value))]
      [] w.field = "longestDrive" ->
            [doc EXCEPT !.contest[w.day].longestDrive = w.value]

\* the document holds what the write of a propagation set
holdsEntry(doc, w) ==
    IF w.field = "closestToPinByHole"
    THEN LET stored == doc.contest[w.day].closestToPinByHole
         IN  stored.isObject /\ w.holeKey \in DOMAIN stored.map
                /\ stored.map[w.holeKey] = w.value
    ELSE doc.contest[w.day].longestDrive = w.value

isDay1LockedViewNever == FALSE

isDay1LockedView == selectedDay = "day1" /\ group.data.day1ScoresLocked

dayPars ==
    LET stored == IF selectedDay = "day1" THEN group.data.tournament.day1Pars
                  ELSE group.data.tournament.day2Pars
    IN  IF stored.isArray /\ Len(stored.elems) = HOLE_COUNT THEN stored ELSE NoArray

par3Holes ==
    IF ~dayPars.isArray THEN {}
    ELSE {i \in Holes : dayPars.elems[i] = FromInt(3)}

\* group?.playerNamesByDay?.[day], else the one-day roster, without blanks
playersOfDay(day) ==
    LET fromByDay == group.data.playerNamesByDay[day]
        legacy == group.data.playerNames
    IN  filterBoolean(IF fromByDay.isArray THEN fromByDay.elems
                      ELSE IF legacy.isArray THEN legacy.elems
                      ELSE <<>>)

playersDay1 == playersOfDay("day1")

playersDay2 == playersOfDay("day2")

\* map[p] ?? otherwise
valueOr(map, p, otherwise) == IF p \in DOMAIN map THEN map[p] ELSE otherwise

\* the table of a day when it is a full table, else null
tableOrNull(table) == IF isTable(table) THEN table ELSE NoArray

\* allocationStrokes of a row of day 1 and of day 2
allocationStrokesDay1(p) ==
    plus(valueOr(handicaps, p, FromInt(0)),
         teeBonusForDay("day1", valueOr(teeChoicesByDay.day1, p, "")))

allocationStrokesDay2(p) ==
    plus(plus(valueOr(handicaps, p, FromInt(0)), valueOr(day2Adjustments, p, FromInt(0))),
         teeBonusForDay("day2", valueOr(teeChoicesByDay.day2, p, "")))

\* one row of a leaderboard
leaderRow(day, p, adjustment, allocationStrokes) ==
    LET pars_ == group.data.tournament[IF day = "day1" THEN "day1Pars" ELSE "day2Pars"]
        hcps_ == group.data.tournament[IF day = "day1" THEN "day1Hcps" ELSE "day2Hcps"]
        played == valueOr(scoresByDay[day], p, <<>>)
        orNulls == valueOr(scoresByDay[day], p, [i \in 1..HOLE_COUNT |-> Null])
        penalty == plus(valueOr(charityStrokes, p, FromInt(0)), valueOr(treeStrokes, p, FromInt(0)))
        netBeforeCharity == computeNetRunningTotal(orNulls, tableOrNull(hcps_), allocationStrokes)
    IN  [player |-> p,
         handicap |-> valueOr(handicaps, p, FromInt(0)),
         adjustment |-> adjustment,
         gross |-> sum(played),
         net |-> applyCharityAtEnd(netBeforeCharity, played, penalty),
         toPar |-> computeToParSoFar(orNulls, tableOrNull(pars_))]

\* x || y on numbers: y when x is 0 or NaN
orElse(x, y) == IF x.k = "num" /\ x.v # 0 THEN x ELSE y

\* the comparator of rows.sort; the mutant leaves the names out
compareRowsNoName(a, b) ==
    orElse(minus(a.net, b.net), minus(a.gross, b.gross))

compareRows(a, b) ==
    orElse(minus(a.net, b.net),
           orElse(minus(a.gross, b.gross), FromInt(localeCompare(a.player, b.player))))

\* rows.sort(compare): the sort is stable, a row goes behind the rows it
\* does not precede
RECURSIVE insertRow(_, _)
insertRow(sorted, row) ==
    IF sorted = <<>> THEN <<row>>
    ELSE LET last == sorted[Len(sorted)]
         IN  IF compareRows(row, last).v < 0
             THEN Append(insertRow(SubSeq(sorted, 1, Len(sorted) - 1), row), last)
             ELSE Append(sorted, row)

RECURSIVE sortFrom(_, _, _)
sortFrom(rows, i, sorted) ==
    IF i > Len(rows) THEN sorted ELSE sortFrom(rows, i + 1, insertRow(sorted, rows[i]))

sortRows(rows) == sortFrom(rows, 1, <<>>)

day1Leaderboard ==
    sortRows([i \in 1..Len(playersDay1) |->
                leaderRow("day1", playersDay1[i], FromInt(0),
                          allocationStrokesDay1(playersDay1[i]))])

day2Leaderboard ==
    sortRows([i \in 1..Len(playersDay2) |->
                leaderRow("day2", playersDay2[i],
                          valueOr(day2Adjustments, playersDay2[i], FromInt(0)),
                          allocationStrokesDay2(playersDay2[i]))])

(***************************************************************************)
(* The state: one engine call, its arguments and its result.  Every call   *)
(* is independent of the others (the engine keeps no state), so a          *)
(* behaviour is a single call.                                             *)
(***************************************************************************)
Unused == Null

\* no call made
EngineInit ==
    /\ fn = "none"
    /\ holeStrokeIndex = Unused
    /\ totalStrokes = Unused
    /\ scores = <<>>
    /\ hcps = NoArray
    /\ pars = NoArray
    /\ net = Unused
    /\ charity = Unused
    /\ result = Unused

\* the page as it is mounted
PageInit ==
    /\ group = NoGroup
    /\ selectedDay = "day1"
    /\ scoresByDay = [day1 |-> <<>>, day2 |-> <<>>]
    /\ handicaps = <<>>
    /\ day2Adjustments = <<>>
    /\ teeChoicesByDay = [day1 |-> <<>>, day2 |-> <<>>]
    /\ charityStrokes = <<>>
    /\ treeStrokes = <<>>
    /\ contestByDay = InitialContestByDay

\* no timer set, no write issued, nothing seen
TimerInit ==
    /\ error = NoError
    /\ saving = FALSE
    /\ timers = {}
    /\ saveTimerRef = 0
    /\ ctpPropagateTimerRef = 0
    /\ longestDrivePropagateTimerRef = 0
    /\ timerCount = 0
    /\ inflight = {}
    /\ observed = NothingObserved

\* nobody signed in, the drafts empty
AdminInit ==
    /\ adminUser = NullStr
    /\ allowedAdminEmails = <<>>
    /\ day1ParsDraft = <<>>
    /\ day2ParsDraft = <<>>
    /\ day1HcpsDraft = <<>>
    /\ day2HcpsDraft = <<>>
    /\ scorecardError = NoError

\* no distance entered
DistanceInit ==
    /\ feetRaw = <<>>
    /\ inchesRaw = <<>>
    /\ note = <<>>
    /\ distance = [feet |-> <<>>, inches |-> <<>>]

\* the groups not loaded, no row edited
RosterInit ==
    /\ allGroups = <<>>
    /\ playerEdits = <<>>
    /\ addPlayerError = NoError
    /\ createGroupError = NoError
    /\ day1LockError = NoError

Init ==
    /\ EngineInit
    /\ PageInit
    /\ TimerInit
    /\ AdminInit
    /\ DistanceInit
    /\ RosterInit
    /\ db = [g \in GroupIds |-> EmptyDoc]

CallStrokesForHole ==
    /\ fn = "none"
    /\ UNCHANGED notEngine
    /\ \E h \in IdxVals, t \in TotalVals :
           /\ fn' = "strokesForHole"
           /\ holeStrokeIndex' = h
           /\ totalStrokes' = t
           /\ result' = strokesForHole(h, t)
           /\ scores' = <<>> /\ hcps' = NoArray /\ pars' = NoArray
           /\ net' = Unused /\ charity' = Unused

CallComputeNetRunningTotal ==
    /\ fn = "none"
    /\ UNCHANGED notEngine
    /\ \E s \in Rounds, table \in HcpTables, t \in RoundTotalVals :
           /\ fn' = "computeNetRunningTotal"
           /\ scores' = s
           /\ hcps' = table
           /\ totalStrokes' = t
           /\ result' = computeNetRunningTotal(s, table, t)
           /\ holeStrokeIndex' = Unused /\ pars' = NoArray
           /\ net' = Unused /\ charity' = Unused

CallComputeNetToPar ==
    /\ fn = "none"
    /\ UNCHANGED notEngine
    /\ \E s \in Rounds, p \in ParTables, table \in HcpTables, t \in RoundTotalVals :
           /\ fn' = "computeNetToPar"
           /\ scores' = s
           /\ pars' = p
           /\ hcps' = table
           /\ totalStrokes' = t
           /\ result' = computeNetToPar(s, p, table, t)
           /\ holeStrokeIndex' = Unused
           /\ net' = Unused /\ charity' = Unused

CallComputeToParSoFar ==
    /\ fn = "none"
    /\ UNCHANGED notEngine
    /\ \E s \in Rounds, p \in ParTables, t \in RowTotalVals, c \in RowPenaltyVals :
           /\ fn' = "computeToParSoFar"
           /\ scores' = s
           /\ pars' = p
           /\ totalStrokes' = t
           /\ charity' = c
           /\ result' = computeToParSoFar(s, p)
           /\ holeStrokeIndex' = Unused /\ hcps' = NoArray /\ net' = Unused

CallApplyCharityAtEnd ==
    /\ fn = "none"
    /\ UNCHANGED notEngine
    /\ \E n \in NetVals, s \in Rounds, c \in PenaltyVals :
           /\ fn' = "applyCharityAtEnd"
           /\ net' = n
           /\ scores' = s
           /\ charity' = c
           /\ result' = applyCharityAtEnd(n, s, c)
           /\ holeStrokeIndex' = Unused /\ totalStrokes' = Unused
           /\ hcps' = NoArray /\ pars' = NoArray

Next ==
    \/ CallStrokesForHole
    \/ CallComputeNetRunningTotal
    \/ CallComputeNetToPar
    \/ CallComputeToParSoFar
    \/ CallApplyCharityAtEnd

Spec == Init /\ [][Next]_vars

(***************************************************************************)
(* The scoring page on a stored document.  The document of the group is    *)
(* written by the admin page, by earlier versions of the application and   *)
(* by hand; it is drawn from a bounded family: a roster for each day, and  *)
(* for each of three players one of a few stored profiles.                 *)
(***************************************************************************)
al == <<"a", "l">>

Al == <<"A", "l">>

Bo == <<"B", "o">>

cy == <<"c", "y">>

Members == {al, Bo, cy}

\* rosters of day 1 and day 2; "legacy" is the one-day format
RosterShapes == {"same", "mixed", "repeated", "legacy"}

RosterDay1(shape) ==
    CASE shape = "same" -> Arr(<<al, Bo, cy>>)
      [] shape = "mixed" -> Arr(<<cy, Bo, al>>)
      [] shape = "repeated" -> Arr(<<Bo, Al, al, <<>>, cy>>)
      [] shape = "legacy" -> NoArray

RosterDay2(shape) ==
    CASE shape = "same" -> Arr(<<al, Bo, cy>>)
      [] shape = "mixed" -> Arr(<<Bo, al>>)
      [] shape = "repeated" -> Arr(<<cy, Bo, al>>)
      [] shape = "legacy" -> NoArray

AllFours == [i \in Holes |-> FromInt(4)]

AllFives == [i \in Holes |-> FromInt(5)]

FrontNine == [i \in Holes |-> IF i <= 9 THEN BaseRound(1)[i] ELSE Null]

\* a stored array with a missing hole and values that are no scores
Damaged ==
    [i \in 1..(HOLE_COUNT - 1) |->
        CASE i = 1 -> NaN
          [] i = 2 -> FromInt(-1)
          [] i = 3 -> NotANumber
          [] i = 4 -> Num(9)
          [] OTHER -> FromInt(4)]

ProfileIds == {"A", "B", "C", "D", "E", "F"}

\* A and B tie on gross and net on both days; C has half a round; D is
\* damaged; E has no stored value at all; F plays off a fractional handicap
Profile(id) ==
    CASE id = "A" -> [day1 |-> Arr(AllFours), day2 |-> Arr(AllFours),
                      handicap |-> FromInt(10), adjustment |-> FromInt(-2),
                      tee1 |-> "three", tee2 |-> "four",
                      charity |-> FromInt(1), tree |-> FromInt(1)]
      [] id = "B" -> [day1 |-> Arr(AllFours), day2 |-> Arr(AllFours),
                      handicap |-> FromInt(11), adjustment |-> FromInt(-3),
                      tee1 |-> "combo", tee2 |-> "three",
                      charity |-> FromInt(2), tree |-> FromInt(0)]
      [] id = "C" -> [day1 |-> Arr(FrontNine), day2 |-> Arr([i \in Holes |-> Null]),
                      handicap |-> FromInt(5), adjustment |-> FromInt(0),
                      tee1 |-> "four", tee2 |-> "tips",
                      charity |-> FromInt(0), tree |-> FromInt(0)]
      [] id = "D" -> [day1 |-> Arr(Damaged), day2 |-> NoArray,
                      handicap |-> NaN, adjustment |-> Null,
                      tee1 |-> "gold", tee2 |-> "",
                      charity |-> NotANumber, tree |-> FromInt(1)]
      [] id = "F" -> [day1 |-> Arr(AllFives), day2 |-> Arr(AllFives),
                      handicap |-> Num(10 * Denom + 1), adjustment |-> FromInt(1),
                      tee1 |-> "four", tee2 |-> "stampede",
                      charity |-> FromInt(0), tree |-> FromInt(0)]

TableChoices == {"tables", "none"}

BoardDoc(shape, assign, tables) ==
    LET stored == {p \in Members : assign[p] # "E"}
        field(name) == Obj([p \in stored |-> Profile(assign[p])[name]])
    IN  [EmptyDoc EXCEPT
            !.playerNames = IF shape = "legacy" THEN Arr(<<al, Bo, cy>>) ELSE NoArray,
            !.playerNamesByDay = [day1 |-> RosterDay1(shape), day2 |-> RosterDay2(shape)],
            !.scores = IF shape = "legacy"
                       THEN [isObject |-> TRUE, byDay |-> <<>>,
                             flat |-> [p \in stored |-> Profile(assign[p]).day1]]
                       ELSE [isObject |-> TRUE,
                             byDay |-> [d \in DayKeys |-> field(d)],
                             flat |-> <<>>],
            !.handicaps = field("handicap"),
            !.day2HandicapAdjustments = field("adjustment"),
            !.teeChoices = [day1 |-> field("tee1"), day2 |-> field("tee2")],
            !.charityStrokes = field("charity"),
            !.treeStrokes = field("tree"),
            !.tournament = IF tables = "tables"
                           THEN [day1Pars |-> Arr(AllFours), day2Pars |-> Arr(AllFours),
                                 day1Hcps |-> Arr(Identity), day2Hcps |-> Arr(Permutation(5))]
                           ELSE EmptyDoc.tournament]

BoardDocs ==
    {BoardDoc(shape, assign, tables) :
        shape \in RosterShapes, assign \in [Members -> ProfileIds], tables \in TableChoices}

InitBoard ==
    /\ EngineInit
    /\ PageInit
    /\ TimerInit
    /\ AdminInit
    /\ DistanceInit
    /\ RosterInit
    /\ \E d \in BoardDocs : db = [g \in GroupIds |-> IF g = groupId THEN d ELSE EmptyDoc]

NextBoard ==
    \/ OnSnapshot
    \/ SelectDay

SpecBoard == InitBoard /\ [][NextBoard]_vars

(***************************************************************************)
(* The scoring page with its inputs, its timers and its writes.  Time      *)
(* passes in steps of TickMs; the callback of a timer that is due runs     *)
(* before time passes and before any later input event, as the event loop  *)
(* runs its tasks in the order they became ready.                          *)
(***************************************************************************)
\* input events of one behaviour, the step of time
MaxEvents == 2

TickMs == 200

\* the holes whose inputs are used
InputHoles == {1}

due(t) == t.age >= delayOf(t.kind)

noneDue == \A t \in timers : ~due(t)

\* the page shows its inputs: it has a group and no error
rendered == ~group.isNull /\ error = NoError

min(a, b) == IF a < b THEN a ELSE b

\* the timers, the refs and what has been seen, as one value that the
\* schedule functions of a handler change one after the other
timerState ==
    [timers |-> timers, save |-> saveTimerRef, ctp |-> ctpPropagateTimerRef,
     ld |-> longestDrivePropagateTimerRef, count |-> timerCount, seen |-> observed]

\* an input event of the given description has been delivered
delivered(st, event) ==
    [st EXCEPT !.seen.events = @ + 1, !.seen.lastEvent = event]

\* an input has changed the local state: the edit joins the edits of the
\* burst, in place of an earlier edit of the same input
noted(st, edit) ==
    LET sofar == IF st.seen.lastPatch.field = "none" \/ st.seen.sinceLastCall >= SaveDelay
                 THEN {} ELSE st.seen.edits
    IN  [st EXCEPT !.seen.edits =
            {e \in sofar : <<e.field, e.day, e.key>> # <<edit.field, edit.day, edit.key>>}
                \cup {edit}]

scheduleSave(st, patch) ==
    [st EXCEPT
        !.timers = setTimeout(clearTimeout(st.timers, st.save), st.count + 1, "save", patch),
        !.save = st.count + 1,
        !.count = st.count + 1,
        !.seen.bursts = IF st.seen.lastPatch.field = "none"
                           \/ st.seen.sinceLastCall >= SaveDelay
                        THEN @ + 1 ELSE @,
        !.seen.sinceLastCall = 0,
        !.seen.lastPatch = patch]

\* the handler has run and left the timers in state st
timersBecome(st) ==
    /\ timers' = st.timers
    /\ saveTimerRef' = st.save
    /\ ctpPropagateTimerRef' = st.ctp
    /\ longestDrivePropagateTimerRef' = st.ld
    /\ timerCount' = st.count
    /\ observed' = st.seen

ScoreTexts == {<<>>, <<"7">>, <<"-", "1">>}

\* onChange of the score input of player p at hole holeIdx
ScoreChange ==
    /\ rendered
    /\ noneDue
    /\ observed.events < MaxEvents
    /\ \E p \in Range(playersOfDay(selectedDay)), holeIdx \in InputHoles, raw \in ScoreTexts :
        LET st == delivered(timerState,
                            [kind |-> "score", p |-> p, holeIdx |-> holeIdx, raw |-> raw])
            parsed == IF raw = <<>> THEN Null ELSE toNumber(raw)
            value == IF typeofNumber(parsed) /\ isFinite(parsed)
                        /\ ~lessThan(parsed, FromInt(0))
                     THEN parsed ELSE Null
            table == scoresByDay[selectedDay]
            row == [i \in Holes |->
                      IF p \in DOMAIN table /\ i <= Len(table[p]) THEN table[p][i] ELSE Null]
            nextScoresTable == withKey(table, p, [row EXCEPT ![holeIdx] = value])
            nextScoresByDay == [scoresByDay EXCEPT ![selectedDay] = nextScoresTable]
        IN  IF isDay1LockedView
            THEN /\ timersBecome(st)
                 /\ UNCHANGED scoresByDay
            ELSE /\ scoresByDay' = nextScoresByDay
                 /\ timersBecome(scheduleSave(
                        noted(st, [field |-> "scores", day |-> selectedDay,
                                   key |-> <<p, holeIdx>>, value |-> value]),
                        [field |-> "scores", value |-> scoresPatch(nextScoresByDay)]))
    /\ UNCHANGED <<db, group, selectedDay, handicaps, day2Adjustments, teeChoicesByDay,
                   charityStrokes, treeStrokes, contestByDay>>
    /\ UNCHANGED <<error, saving, inflight>>
    /\ UNCHANGED notPage

\* TickMs pass
Tick ==
    /\ timers # {}
    /\ noneDue
    /\ timers' = {[t EXCEPT !.age = min(t.age + TickMs, delayOf(t.kind))] : t \in timers}
    /\ observed' = [observed EXCEPT !.sinceLastCall = min(@ + TickMs, SaveDelay)]
    /\ UNCHANGED <<db, pageVars>>
    /\ UNCHANGED <<error, saving, saveTimerRef, ctpPropagateTimerRef,
                   longestDrivePropagateTimerRef, timerCount, inflight>>
    /\ UNCHANGED notPage

\* an updateDoc call of timer t on group g
write(t, g, field, day, holeKey, value) ==
    [id |-> t.id, kind |-> t.kind, to |-> g, field |-> field, day |-> day,
     holeKey |-> holeKey, value |-> value, rejected |-> FALSE]

\* The callback of scheduleSave, up to its updateDoc call.
SaveTimerFires ==
    /\ \E t \in timers :
        /\ t.kind = "save"
        /\ due(t)
        /\ timers' = timers \ {t}
        /\ saving' = TRUE
        /\ inflight' = inflight \cup
               {write(t, groupId, t.payload.field, "", <<>>, t.payload.value)}
        /\ observed' = [observed EXCEPT
               !.saves = @ + 1,
               !.lastSave = [issued |-> TRUE, patch |-> t.payload,
                             lastPatch |-> observed.lastPatch,
                             sinceLastCall |-> observed.sinceLastCall]]
    /\ UNCHANGED <<db, pageVars>>
    /\ UNCHANGED <<error, saveTimerRef, ctpPropagateTimerRef,
                   longestDrivePropagateTimerRef, timerCount>>
    /\ UNCHANGED notPage

messageOf(kind) ==
    CASE kind = "save" -> "Could not save changes"
      [] kind = "ctp" -> "Could not propagate Closest-to-Pin"
      [] kind = "ld" -> "Could not propagate Longest Drive"
      [] kind = "scorecards" -> "Could not save scorecards"

\* An updateDoc call resolves: the document holds the fields.
WriteSucceeds ==
    /\ \E w \in inflight :
        /\ db' = [db EXCEPT ![w.to] = applyWrite(@, w)]
        /\ inflight' = inflight \ {w}
        /\ saving' = IF w.kind = "save" THEN FALSE ELSE saving
        /\ observed' =
               IF observed.lastFanOut.issued /\ observed.lastFanOut.id = w.id
               THEN [observed EXCEPT
                        !.lastFanOut.resolved = @ \cup {w.to},
                        !.lastFanOut.holding =
                            @ \cup {g \in {w.to} : holdsEntry(applyWrite(db[g], w), w)}]
               ELSE observed
    /\ UNCHANGED pageVars
    /\ UNCHANGED <<error, timers, saveTimerRef, ctpPropagateTimerRef,
                   longestDrivePropagateTimerRef, timerCount>>
    /\ UNCHANGED notPage

\* An updateDoc call rejects: the catch block sets the error, once for the
\* calls of one Promise.all.
WriteFails ==
    /\ \E w \in inflight :
        /\ inflight' = {IF v.id = w.id THEN [v EXCEPT !.rejected = TRUE] ELSE v :
                           v \in inflight \ {w}}
        /\ error' = IF w.rejected \/ w.kind = "scorecards" THEN error
                     ELSE messageOf(w.kind)
        /\ scorecardError' = IF w.kind = "scorecards" THEN messageOf(w.kind)
                              ELSE scorecardError
        /\ saving' = IF w.kind = "save" THEN FALSE ELSE saving
        /\ observed' =
               IF observed.lastFanOut.issued /\ observed.lastFanOut.id = w.id
               THEN [observed EXCEPT
                        !.lastFanOut.failed = @ \cup {w.to},
                        !.lastFanOut.errorAfterFailure =
                            IF w.rejected THEN error ELSE messageOf(w.kind)]
               ELSE observed
    /\ UNCHANGED <<db, pageVars>>
    /\ UNCHANGED <<timers, saveTimerRef, ctpPropagateTimerRef,
                   longestDrivePropagateTimerRef, timerCount>>
    /\ UNCHANGED <<adminUser, allowedAdminEmails, day1ParsDraft, day2ParsDraft,
                   day1HcpsDraft, day2HcpsDraft>>
    /\ UNCHANGED <<engineVars, distanceVars, rosterVars>>

\* the address of the administrator
Boss == <<"B", "o", "@", "x">>

\* the message of a handler of the admin page called by somebody else
AdminRequired == "Admin access required."

\* the signed-in user may administer: the allow-list is empty or holds the
\* address in lower case
isAdminSignedIn == ~adminUser.isNull

isAdmin ==
    IF adminUser.isNull THEN FALSE
    ELSE IF allowedAdminEmails = <<>> THEN TRUE
    ELSE toLowerCase(adminUser.s) \in Range(allowedAdminEmails)

\* setDay1ScoresLocked of the admin page, for an administrator: the
\* updateDoc call resolves or rejects
SetDay1ScoresLocked ==
    /\ \E nextLocked \in BOOLEAN, available \in BOOLEAN :
        IF ~isAdmin
        THEN /\ error' = AdminRequired
             /\ UNCHANGED <<db, day1LockError>>
        ELSE IF available /\ groupId \in DOMAIN db
        THEN /\ db' = [db EXCEPT ![groupId].day1ScoresLocked = nextLocked]
             /\ day1LockError' = NoError
             /\ UNCHANGED error
        ELSE /\ day1LockError' = "unavailable"
             /\ UNCHANGED <<db, error>>
    /\ UNCHANGED pageVars
    /\ UNCHANGED <<saving, timers, saveTimerRef, ctpPropagateTimerRef,
                   longestDrivePropagateTimerRef, timerCount, inflight, observed>>
    /\ UNCHANGED <<engineVars, adminVars, distanceVars>>
    /\ UNCHANGED <<allGroups, playerEdits, addPlayerError, createGroupError>>

\* the stored group of the page: one player, pars with one par 3 hole
ParsOfDay == [i \in Holes |-> FromInt(IF i = 2 THEN 3 ELSE 4)]

PageDoc ==
    [EmptyDoc EXCEPT
        !.playerNamesByDay = [day1 |-> Arr(<<al>>), day2 |-> Arr(<<al>>)],
        !.scores = [isObject |-> TRUE,
                    byDay |-> [d \in DayKeys |-> Obj([p \in {al} |-> Arr(AllFours)])],
                    flat |-> <<>>],
        !.tournament = [day1Pars |-> Arr(ParsOfDay), day2Pars |-> Arr(ParsOfDay),
                        day1Hcps |-> Arr(Identity), day2Hcps |-> Arr(Identity)]]

\* the scoring page, and an administrator signed in on the admin page
InitSave ==
    /\ EngineInit
    /\ PageInit
    /\ TimerInit
    /\ adminUser = Str(Boss)
    /\ allowedAdminEmails = <<>>
    /\ day1ParsDraft = <<>>
    /\ day2ParsDraft = <<>>
    /\ day1HcpsDraft = <<>>
    /\ day2HcpsDraft = <<>>
    /\ scorecardError = NoError
    /\ DistanceInit
    /\ RosterInit
    /\ \E locked \in BOOLEAN :
        db = [g \in GroupIds |->
                 IF g = groupId THEN [PageDoc EXCEPT !.day1ScoresLocked = locked]
                 ELSE EmptyDoc]

NextSave ==
    \/ OnSnapshot
    \/ SelectDay
    \/ ScoreChange
    \/ Tick
    \/ SaveTimerFires
    \/ WriteSucceeds
    \/ WriteFails
    \/ SetDay1ScoresLocked

SpecSave == InitSave /\ [][NextSave]_vars

(***************************************************************************)
(* The contest inputs of the scoring page and the propagation of their     *)
(* entries to the groups of the tournament.                                *)
(***************************************************************************)
\* group.tournamentId?.trim(), the empty string when there is none
trimmedTournamentId ==
    IF group.isNull \/ group.data.tournamentId.isNull THEN <<>>
    ELSE trim(group.data.tournamentId.s)

scheduleClosestToPinPropagateAlways(st, holeKey, entry) ==
    [st EXCEPT
        !.timers = setTimeout(clearTimeout(st.timers, st.ctp), st.count + 1, "ctp",
                              [tournamentId |-> trimmedTournamentId, day |-> selectedDay,
                               holeKey |-> holeKey, value |-> normalizeWinnerNote(entry)]),
        !.ctp = st.count + 1,
        !.count = st.count + 1]

scheduleClosestToPinPropagate(st, holeKey, entry) ==
    LET normalized == normalizeWinnerNote(entry)
    IN  IF group.isNull THEN st
        ELSE IF normalized.note.isNull THEN st
        ELSE IF trimmedTournamentId = <<>> THEN st
        ELSE [st EXCEPT
                !.timers = setTimeout(clearTimeout(st.timers, st.ctp), st.count + 1, "ctp",
                                      [tournamentId |-> trimmedTournamentId,
                                       day |-> selectedDay,
                                       holeKey |-> holeKey, value |-> normalized]),
                !.ctp = st.count + 1,
                !.count = st.count + 1]

scheduleLongestDrivePropagate(st, winner) ==
    IF group.isNull THEN st
    ELSE IF trimmedTournamentId = <<>> THEN st
    ELSE IF trim(winner) = <<>> THEN st
    ELSE [st EXCEPT
            !.timers = setTimeout(clearTimeout(st.timers, st.ld), st.count + 1, "ld",
                                  [tournamentId |-> trimmedTournamentId,
                                   day |-> selectedDay, holeKey |-> <<>>,
                                   value |-> [hole |-> Null, winner |-> Str(trim(winner)),
                                              note |-> NullStr]]),
            !.ld = st.count + 1,
            !.count = st.count + 1]

WinnerTexts == {<<" ">>, Bo}

FeetInputTexts == {<<>>, <<"5">>}

InchesInputTexts == {<<"2">>}

\* the texts an input of a closest-to-the-pin row can take
CtpInputTexts(input) ==
    CASE input = "winner" -> WinnerTexts
      [] input = "feet" -> FeetInputTexts
      [] input = "inches" -> InchesInputTexts

updateClosestToPinForHole(st, holeNumber, field, value) ==
    LET holeKey == toDigits(holeNumber)
        prev == contestByDay[selectedDay].closestToPinByHole
        existing == IF holeKey \in DOMAIN prev THEN prev[holeKey]
                    ELSE [winner |-> <<>>, note |-> <<>>]
        next == [contestByDay EXCEPT
                    ![selectedDay].closestToPinByHole =
                        withKey(prev, holeKey, [existing EXCEPT ![field] = value])]
        nextEntry == next[selectedDay].closestToPinByHole[holeKey]
    IN  /\ contestByDay' = next
        /\ timersBecome(scheduleClosestToPinPropagate(
               scheduleSave(noted(st, [field |-> "closestToPinByHole", day |-> selectedDay,
                                       key |-> holeKey,
                                       value |-> normalizeWinnerNote(nextEntry)]),
                            [field |-> "contest", value |-> contestPatch(next)]),
               holeKey, nextEntry))

\* onChange of the winner, feet and inches inputs of a par 3 hole
ClosestToPinChange ==
    /\ rendered
    /\ noneDue
    /\ observed.events < MaxEvents
    /\ \E hole \in par3Holes, input \in {"winner", "feet", "inches"} :
        \E text \in CtpInputTexts(input) :
            LET holeKey == toDigits(hole)
                map == contestByDay[selectedDay].closestToPinByHole
                entry == IF holeKey \in DOMAIN map THEN map[holeKey]
                         ELSE [winner |-> <<>>, note |-> <<>>]
                shown == parseFeetInches(entry.note)
                st == delivered(timerState, [kind |-> "ctp", holeKey |-> holeKey,
                                             input |-> input, text |-> text])
            IN  CASE input = "winner" ->
                        updateClosestToPinForHole(st, hole, "winner", text)
                  [] input = "feet" ->
                        updateClosestToPinForHole(st, hole, "note",
                                                  formatFeetInches(text, shown.inches))
                  [] input = "inches" ->
                        updateClosestToPinForHole(st, hole, "note",
                                                  formatFeetInches(shown.feet, text))
    /\ UNCHANGED <<db, group, selectedDay, scoresByDay, handicaps, day2Adjustments,
                   teeChoicesByDay, charityStrokes, treeStrokes>>
    /\ UNCHANGED <<error, saving, inflight>>
    /\ UNCHANGED notPage

\* onChange of the winner input of the longest drive
LongestDriveChange ==
    /\ rendered
    /\ noneDue
    /\ observed.events < MaxEvents
    /\ \E value \in WinnerTexts :
        LET next == [contestByDay EXCEPT ![selectedDay].longestDrive.winner = value]
            st == delivered(timerState, [kind |-> "ld", holeKey |-> <<>>,
                                         input |-> "winner", text |-> value])
        IN  /\ contestByDay' = next
            /\ timersBecome(scheduleLongestDrivePropagate(
                   scheduleSave(noted(st, [field |-> "longestDrive", day |-> selectedDay,
                                           key |-> <<>>,
                                           value |-> normalizeContestEntry(
                                                         next[selectedDay].longestDrive)]),
                                [field |-> "contest", value |-> contestPatch(next)]),
                   value))
    /\ UNCHANGED <<db, group, selectedDay, scoresByDay, handicaps, day2Adjustments,
                   teeChoicesByDay, charityStrokes, treeStrokes>>
    /\ UNCHANGED <<error, saving, inflight>>
    /\ UNCHANGED notPage

\* where("tournamentId", "==", id) on the groups collection
groupsOfTournament(id) == {g \in GroupIds : db[g].tournamentId = Str(id)}

\* The callback of a propagation timer: the query, then one updateDoc
\* call for each document of its result; or the query rejects.
PropagateTimerFires ==
    /\ \E t \in timers :
        /\ t.kind \in {"ctp", "ld"}
        /\ due(t)
        /\ timers' = timers \ {t}
        /\ \/ LET docs == groupsOfTournament(t.payload.tournamentId)
                  field == IF t.kind = "ctp" THEN "closestToPinByHole" ELSE "longestDrive"
              IN  /\ inflight' = inflight \cup
                         {write(t, g, field, t.payload.day, t.payload.holeKey,
                                t.payload.value) : g \in docs}
                  /\ observed' = [observed EXCEPT
                         !.fanOuts = @ + 1,
                         !.lastFanOut =
                             [issued |-> TRUE, id |-> t.id, kind |-> t.kind,
                              to |-> docs,
                              sharing |-> {g \in GroupIds :
                                              db[g].tournamentId = db[groupId].tournamentId},
                              trimmed |-> t.payload.tournamentId,
                              resolved |-> {}, holding |-> {}, failed |-> {},
                              errorAfterFailure |-> NoError]]
                  /\ UNCHANGED error
           \/ /\ error' = messageOf(t.kind)
              /\ UNCHANGED <<inflight, observed>>
    /\ UNCHANGED <<db, pageVars>>
    /\ UNCHANGED <<saving, saveTimerRef, ctpPropagateTimerRef,
                   longestDrivePropagateTimerRef, timerCount>>
    /\ UNCHANGED notPage

T1 == <<"T", "1">>

\* the tournamentId of the group of the page: missing, empty, blank, an id,
\* and an id stored with a blank before it
TournamentIds == {NullStr, Str(<<>>), Str(<<" ">>), Str(T1), Str(<<" ">> \o T1)}

\* the group of the page in a tournament, shown with Day 1 selected as the
\* page opens; hole 2 of Day 1 has a stored
\* entry with a winner and a blank note
ContestDoc(id) ==
    [PageDoc EXCEPT
        !.tournamentId = id,
        !.contest.day1.closestToPinByHole =
            Obj([k \in {<<"2">>} |-> [winner |-> Str(Bo), note |-> Str(<<" ">>)]])]

InitContest ==
    /\ EngineInit
    /\ PageInit
    /\ TimerInit
    /\ AdminInit
    /\ DistanceInit
    /\ RosterInit
    /\ \E id \in TournamentIds :
        db = [g \in GroupIds |->
                 CASE g = "g1" -> ContestDoc(id)
                   [] g = "g2" -> [EmptyDoc EXCEPT !.tournamentId = Str(T1)]
                   [] g = "g3" -> [EmptyDoc EXCEPT !.tournamentId = Str(<<" ">> \o T1)]]

NextContest ==
    \/ OnSnapshot
    \/ ClosestToPinChange
    \/ LongestDriveChange
    \/ Tick
    \/ SaveTimerFires
    \/ PropagateTimerFires
    \/ WriteSucceeds
    \/ WriteFails

SpecContest == InitContest /\ [][NextContest]_vars

\* the scoring page with its score inputs and its contest inputs, in a
\* group without a tournament, while an administrator locks and unlocks
\* Day 1
NextEdits ==
    \/ OnSnapshot
    \/ ScoreChange
    \/ ClosestToPinChange
    \/ Tick
    \/ SaveTimerFires
    \/ WriteSucceeds
    \/ SetDay1ScoresLocked

SpecEdits == InitSave /\ [][NextEdits]_vars

\* the group of the page in tournament T1 with another group, on a course
\* whose holes 2 and 5 are par 3 holes
TwoPar3s == [i \in Holes |-> FromInt(IF i \in {2, 5} THEN 3 ELSE 4)]

InitPins ==
    /\ EngineInit
    /\ PageInit
    /\ TimerInit
    /\ AdminInit
    /\ DistanceInit
    /\ RosterInit
    /\ db = [g \in GroupIds |->
                CASE g = "g1" -> [PageDoc EXCEPT !.tournamentId = Str(T1),
                                                 !.tournament.day1Pars = Arr(TwoPar3s),
                                                 !.tournament.day2Pars = Arr(TwoPar3s)]
                  [] g = "g2" -> [EmptyDoc EXCEPT !.tournamentId = Str(T1)]
                  [] g = "g3" -> EmptyDoc]

NextPins ==
    \/ OnSnapshot
    \/ ClosestToPinChange
    \/ Tick
    \/ SaveTimerFires
    \/ PropagateTimerFires
    \/ WriteSucceeds

SpecPins == InitPins /\ [][NextPins]_vars

(***************************************************************************)
(* The scorecard form of the admin page.  A draft is the text of one of    *)
(* its four inputs.                                                        *)
(***************************************************************************)
\* the characters that raw.split(/,|\n|\s+/) splits at
DraftSeparators == Whitespace \cup {",", "\n"}

RECURSIVE splitFrom(_, _, _)
\* the parts of s from position i on that are not empty, current being the
\* part read so far
splitFrom(s, i, current) ==
    LET done == IF current = <<>> THEN <<>> ELSE <<current>>
    IN  IF i > Len(s) THEN done
        ELSE IF s[i] \in DraftSeparators THEN done \o splitFrom(s, i + 1, <<>>)
        ELSE splitFrom(s, i + 1, Append(current, s[i]))

\* raw.split(/,|\n|\s+/).map((s) => s.trim()).filter(Boolean)
splitDraft(raw) == splitFrom(raw, 1, <<>>)

\* parts.map((p) => Number(p))
numbersOfDraft(raw) ==
    CHOOSE nums \in {[i \in 1..Len(parts) |-> toNumber(parts[i])] :
                        parts \in {splitDraft(raw)}} : TRUE

\* nums.map((n) => Math.floor(n))
floors(nums) == [i \in 1..Len(nums) |-> floor(nums[i])]

\* the tests of parseParsDraft on the numbers and their floors
parsOfNumbers(nums, ints) ==
    IF \E i \in 1..Len(nums) : ~isFinite(nums[i]) THEN NoArray
    ELSE IF Len(nums) # HOLE_COUNT THEN NoArray
    ELSE IF \E i \in 1..Len(ints) :
                lessThan(ints[i], FromInt(3)) \/ lessThan(FromInt(6), ints[i])
    THEN NoArray
    ELSE Arr(ints)

parseParsDraft(raw) ==
    CHOOSE table \in {parsOfNumbers(nums, ints) :
                          nums \in {numbersOfDraft(raw)},
                          ints \in {floors(numbersOfDraft(raw))}} : TRUE

\* the tests of parseHcpsDraft on the numbers and their floors
hcpsOfNumbersNoSet(nums, ints) ==
    IF \E i \in 1..Len(nums) : ~isFinite(nums[i]) THEN NoArray
    ELSE IF Len(nums) # HOLE_COUNT THEN NoArray
    ELSE IF \E i \in 1..Len(ints) :
                lessThan(ints[i], FromInt(1)) \/ lessThan(FromInt(18), ints[i])
    THEN NoArray
    ELSE Arr(ints)

hcpsOfNumbers(nums, ints) ==
    IF \E i \in 1..Len(nums) : ~isFinite(nums[i]) THEN NoArray
    ELSE IF Len(nums) # HOLE_COUNT THEN NoArray
    ELSE IF \E i \in 1..Len(ints) :
                lessThan(ints[i], FromInt(1)) \/ lessThan(FromInt(18), ints[i])
    THEN NoArray
    ELSE IF Cardinality({ints[i] : i \in 1..Len(ints)}) # HOLE_COUNT THEN NoArray
    ELSE Arr(ints)

parseHcpsDraft(raw) ==
    CHOOSE table \in {hcpsOfNumbers(nums, ints) :
                          nums \in {numbersOfDraft(raw)},
                          ints \in {floors(numbersOfDraft(raw))}} : TRUE

RECURSIVE join(_, _)
\* Array.prototype.join of a list of texts
join(texts, separator) ==
    IF texts = <<>> THEN <<>>
    ELSE IF Len(texts) = 1 THEN texts[1]
    ELSE texts[1] \o separator \o join(Tail(texts), separator)

\* The admin page's snapshot listener.  It was created by the effect of the
\* first render and tests the drafts of that render, which are empty: a
\* stored table of 18 replaces the draft on every snapshot.
AdminOnSnapshot ==
    LET data == db[groupId]
        legacy == filterBoolean(IF data.playerNames.isArray THEN data.playerNames.elems ELSE <<>>)
        d1 == filterBoolean(IF data.playerNamesByDay.day1.isArray
                            THEN data.playerNamesByDay.day1.elems ELSE legacy)
        d2 == filterBoolean(IF data.playerNamesByDay.day2.isArray
                            THEN data.playerNamesByDay.day2.elems ELSE legacy)
        allPlayers == uniqPreserveOrder(d1 \o d2)
        fromStored(stored, draft) ==
            IF isTable(stored)
            THEN join([i \in Holes |-> numberToString(stored.elems[i])], <<",">>)
            ELSE draft
    IN  /\ snapshotReady
        /\ group' = [isNull |-> FALSE, data |-> data]
        /\ scoresByDay' = coerceScoresByDay(allPlayers, data.scores)
        /\ day1ParsDraft' = fromStored(data.tournament.day1Pars, day1ParsDraft)
        /\ day2ParsDraft' = fromStored(data.tournament.day2Pars, day2ParsDraft)
        /\ day1HcpsDraft' = fromStored(data.tournament.day1Hcps, day1HcpsDraft)
        /\ day2HcpsDraft' = fromStored(data.tournament.day2Hcps, day2HcpsDraft)
        /\ UNCHANGED <<db, selectedDay, handicaps, day2Adjustments, teeChoicesByDay,
                       charityStrokes, treeStrokes, contestByDay>>
        /\ UNCHANGED timerVars
        /\ UNCHANGED <<adminUser, allowedAdminEmails, scorecardError>>
        /\ UNCHANGED <<engineVars, distanceVars, rosterVars>>

\* the texts of the numbers of a table
tokensOf(table) == [i \in 1..Len(table) |-> numberToString(table[i])]

\* drafts of pars: 18 values; 18 values with a fraction, written with a
\* blank after each comma; 17 values; a 7; a 2; a letter
ParsDrafts ==
    LET tokens == tokensOf(ParsOfDay)
    IN  [valid |-> join(tokens, <<",">>),
         loose |-> join([tokensOf(AllFives) EXCEPT ![1] = <<"5", ".", "5">>], <<",", " ">>),
         short |-> join(SubSeq(tokens, 1, HOLE_COUNT - 1), <<",">>),
         high |-> join([tokens EXCEPT ![3] = <<"7">>], <<",">>),
         low |-> join([tokens EXCEPT ![3] = <<"2">>], <<",">>),
         odd |-> join([tokens EXCEPT ![3] = <<"x">>], <<",">>)]

\* drafts of stroke indexes: 1..18; a permutation with a fraction, one
\* value a line; a repeated 1; a 1.5 after the 1; a 19; a 0; 17 values
HcpsDrafts ==
    LET tokens == tokensOf(Identity)
    IN  [valid |-> join(tokens, <<",">>),
         loose |-> join([tokensOf(Permutation(5)) EXCEPT ![1] = <<"6", ".", "5">>], <<"\n">>),
         repeated |-> join([tokens EXCEPT ![2] = <<"1">>], <<",">>),
         repeatedWhole |-> join([tokens EXCEPT ![2] = <<"1", ".", "5">>], <<",">>),
         high |-> join([tokens EXCEPT ![18] = <<"1", "9">>], <<",">>),
         low |-> join([tokens EXCEPT ![1] = <<"0">>], <<",">>),
         short |-> join(SubSeq(tokens, 1, HOLE_COUNT - 1), <<",">>)]

Day1ParsTexts == {<<>>, <<" ">>} \cup {ParsDrafts[k] : k \in DOMAIN ParsDrafts}

Day2ParsTexts == {<<>>, ParsDrafts.valid, ParsDrafts.short}

Day1HcpsTexts == {<<>>} \cup {HcpsDrafts[k] : k \in DOMAIN HcpsDrafts}

Day2HcpsTexts == {<<>>, HcpsDrafts.valid, HcpsDrafts.repeated}

\* onChange of the four inputs of the scorecard form: the form is filled
\* in; filling it in twice in a row is filling it in once
DraftsChange ==
    /\ observed.events < MaxEvents
    /\ observed.lastEvent.kind # "drafts"
    /\ \E p1 \in Day1ParsTexts, p2 \in Day2ParsTexts,
          h1 \in Day1HcpsTexts, h2 \in Day2HcpsTexts :
        /\ day1ParsDraft' = p1
        /\ day2ParsDraft' = p2
        /\ day1HcpsDraft' = h1
        /\ day2HcpsDraft' = h2
    /\ observed' = [observed EXCEPT !.events = @ + 1, !.lastEvent = [kind |-> "drafts"]]
    /\ UNCHANGED <<db, pageVars>>
    /\ UNCHANGED <<error, saving, timers, saveTimerRef, ctpPropagateTimerRef,
                   longestDrivePropagateTimerRef, timerCount, inflight>>
    /\ UNCHANGED <<adminUser, allowedAdminEmails, scorecardError>>
    /\ UNCHANGED <<engineVars, distanceVars, rosterVars>>

\* set the fields of tournament that were parsed
withParsed(tournament, day1, day2, h1, h2) ==
    [day1Pars |-> IF day1.isArray THEN day1 ELSE tournament.day1Pars,
     day2Pars |-> IF day2.isArray THEN day2 ELSE tournament.day2Pars,
     day1Hcps |-> IF h1.isArray THEN h1 ELSE tournament.day1Hcps,
     day2Hcps |-> IF h2.isArray THEN h2 ELSE tournament.day2Hcps]

\* what saveScorecards shows for the drafts and the parsed tables
scorecardOutcome(day1, day2, h1, h2) ==
    LET hasParsDraft == trim(day1ParsDraft) # <<>> \/ trim(day2ParsDraft) # <<>>
        hasHcpsDraft == trim(day1HcpsDraft) # <<>> \/ trim(day2HcpsDraft) # <<>>
    IN  IF ~isAdmin THEN AdminRequired
        ELSE IF ~hasParsDraft /\ ~hasHcpsDraft THEN "Enter pars and/or HCP values"
        ELSE IF hasParsDraft /\ (~day1.isArray \/ ~day2.isArray) THEN "Enter pars per day"
        ELSE IF hasHcpsDraft /\ (~h1.isArray \/ ~h2.isArray) THEN "Enter HCP values per day"
        ELSE NoError

\* saveScorecards, up to its updateDoc call
SaveScorecards ==
    /\ observed.events < MaxEvents
    /\ \E day1 \in {IF trim(day1ParsDraft) # <<>> THEN parseParsDraft(day1ParsDraft) ELSE NoArray},
          day2 \in {IF trim(day2ParsDraft) # <<>> THEN parseParsDraft(day2ParsDraft) ELSE NoArray},
          h1 \in {IF trim(day1HcpsDraft) # <<>> THEN parseHcpsDraft(day1HcpsDraft) ELSE NoArray},
          h2 \in {IF trim(day2HcpsDraft) # <<>> THEN parseHcpsDraft(day2HcpsDraft) ELSE NoArray},
          tournament \in {IF group.isNull THEN EmptyDoc.tournament ELSE group.data.tournament} :
        \E outcome \in {scorecardOutcome(day1, day2, h1, h2)},
           value \in {withParsed(tournament, day1, day2, h1, h2)} :
            /\ observed' =
                   [observed EXCEPT
                       !.events = @ + 1,
                       !.lastEvent =
                           [kind |-> "scorecards", wrote |-> outcome = NoError,
                            tournament |-> tournament, value |-> value,
                            day1ParsDraft |-> day1ParsDraft, day2ParsDraft |-> day2ParsDraft,
                            day1HcpsDraft |-> day1HcpsDraft, day2HcpsDraft |-> day2HcpsDraft,
                            shown |-> outcome]]
            /\ IF ~isAdmin
               THEN /\ error' = outcome
                    /\ UNCHANGED <<scorecardError, inflight>>
               ELSE IF outcome # NoError
               THEN /\ scorecardError' = outcome
                    /\ UNCHANGED <<error, inflight>>
               ELSE /\ scorecardError' = NoError
                    /\ inflight' = inflight \cup
                           {write([id |-> observed.events + 1, kind |-> "scorecards"],
                                  groupId, "tournament", "", <<>>, value)}
                    /\ UNCHANGED error
    /\ UNCHANGED <<db, pageVars>>
    /\ UNCHANGED <<saving, timers, saveTimerRef, ctpPropagateTimerRef,
                   longestDrivePropagateTimerRef, timerCount>>
    /\ UNCHANGED <<adminUser, allowedAdminEmails, day1ParsDraft, day2ParsDraft,
                   day1HcpsDraft, day2HcpsDraft>>
    /\ UNCHANGED <<engineVars, distanceVars, rosterVars>>

\* who is signed in, and the addresses allowed to administer
SignIns ==
    {[user |-> NullStr, allowed |-> <<>>],
     [user |-> Str(Boss), allowed |-> <<>>],
     [user |-> Str(Boss), allowed |-> <<toLowerCase(Boss)>>],
     [user |-> Str(al), allowed |-> <<toLowerCase(Boss)>>]}

InitAdmin ==
    /\ EngineInit
    /\ PageInit
    /\ TimerInit
    /\ DistanceInit
    /\ RosterInit
    /\ \E signIn \in SignIns :
        /\ adminUser = signIn.user
        /\ allowedAdminEmails = signIn.allowed
    /\ day1ParsDraft = <<>>
    /\ day2ParsDraft = <<>>
    /\ day1HcpsDraft = <<>>
    /\ day2HcpsDraft = <<>>
    /\ scorecardError = NoError
    /\ \E stored \in {PageDoc.tournament, EmptyDoc.tournament} :
        db = [g \in GroupIds |->
                 IF g = groupId THEN [PageDoc EXCEPT !.tournament = stored] ELSE EmptyDoc]

NextAdmin ==
    \/ AdminOnSnapshot
    \/ DraftsChange
    \/ SaveScorecards
    \/ WriteSucceeds
    \/ WriteFails

SpecAdmin == InitAdmin /\ [][NextAdmin]_vars

(***************************************************************************)
(* The roster table of the admin page.  Its handlers read the page's view  *)
(* of the groups collection (allGroups) and the edits of a row, and change *)
(* the stored groups in a transaction, which reads the documents as they   *)
(* are when it commits.                                                    *)
(***************************************************************************)
\* the roster of a day of a stored group: playerNamesByDay, else the
\* one-day roster, without blanks
rosterOf(data, day) ==
    filterBoolean(IF data.playerNamesByDay[day].isArray
                  THEN data.playerNamesByDay[day].elems
                  ELSE IF data.playerNames.isArray THEN data.playerNames.elems
                  ELSE <<>>)

\* { ...(x ?? {}) }
spread(x) == IF x.isObject THEN x.map ELSE <<>>

\* delete map[key]
without(map, key) == [k \in DOMAIN map \ {key} |-> map[k]]

\* players.find(...) ?? null: the first of the elements at the positions
\* found, or null
firstOf(players, found) ==
    IF found = {} THEN NullStr
    ELSE Str(players[CHOOSE i \in found : \A j \in found : i <= j])

findPlayerKey(players, player) ==
    firstOf(players, {i \in 1..Len(players) :
                         toLowerCase(trim(players[i])) = toLowerCase(trim(player))})

\* players.find((p) => p.toLowerCase() === lowered) ?? null
findLoweredNever(players, lowered) == NullStr

findLowered(players, lowered) ==
    firstOf(players, {i \in 1..Len(players) : toLowerCase(players[i]) = lowered})

\* players.filter((p) => p.toLowerCase() !== lowered)
filterLowered(players, lowered) == SelectSeq(players, LAMBDA p : toLowerCase(p) # lowered)

EmptyRow == [i \in 1..HOLE_COUNT |-> Null]

\* the fields of a roster update, set on a stored group
withRoster(data, players, day1, day2, numbers, tees, byDay) ==
    [data EXCEPT
        !.playerNames = Arr(players),
        !.playerNamesByDay = [day1 |-> Arr(day1), day2 |-> Arr(day2)],
        !.handicaps = Obj(numbers.handicap),
        !.day2HandicapAdjustments = Obj(numbers.day2Adj),
        !.charityStrokes = Obj(numbers.charity),
        !.treeStrokes = Obj(numbers.tree),
        !.teeChoices = [day1 |-> Obj(tees.day1), day2 |-> Obj(tees.day2)],
        !.scores = byDay]

\* the four number maps of a stored group
numbersOf(data) ==
    [handicap |-> spread(data.handicaps),
     day2Adj |-> spread(data.day2HandicapAdjustments),
     charity |-> spread(data.charityStrokes),
     tree |-> spread(data.treeStrokes)]

NumberFields == {"handicap", "day2Adj", "charity", "tree"}

\* The transaction of a move, on the stored groups: what it throws, if it
\* throws, and the groups after it.  safe holds the four numbers of the
\* row and tee its two tees.
movePlayer(store, gid, moveToGid, player, moveDay, nextName, safe, tee) ==
    IF gid \notin DOMAIN store
    THEN [thrown |-> "Source group not found", store |-> store]
    ELSE IF moveToGid \notin DOMAIN store
    THEN [thrown |-> "Target group not found", store |-> store]
    ELSE
    LET from == store[gid]
        to == store[moveToGid]
        fromDay1 == rosterOf(from, "day1")
        fromDay2 == rosterOf(from, "day2")
        toDay1 == rosterOf(to, "day1")
        toDay2 == rosterOf(to, "day2")
        fromRoster == IF moveDay = "day1" THEN fromDay1 ELSE fromDay2
        toRoster == IF moveDay = "day1" THEN toDay1 ELSE toDay2
        found == findPlayerKey(fromRoster, player)
        fromKey == found.s
        loweredFrom == toLowerCase(fromKey)
        toKey == nextName
        loweredTo == toLowerCase(trim(toKey))
        toExisting == findLowered(toRoster, loweredTo)
        nextFromDay1 == IF moveDay = "day1" THEN filterLowered(fromDay1, loweredFrom) ELSE fromDay1
        nextFromDay2 == IF moveDay = "day2" THEN filterLowered(fromDay2, loweredFrom) ELSE fromDay2
        nextToDay1 == IF moveDay = "day1" THEN Append(toDay1, toKey) ELSE toDay1
        nextToDay2 == IF moveDay = "day2" THEN Append(toDay2, toKey) ELSE toDay2
        nextFromPlayers == uniqPreserveOrder(nextFromDay1 \o nextFromDay2)
        nextToPlayers == uniqPreserveOrder(nextToDay1 \o nextToDay2)
        stillInFrom == \E i \in 1..Len(nextFromPlayers) :
                           toLowerCase(nextFromPlayers[i]) = loweredFrom
        nextFromNumbers ==
            [field \in NumberFields |->
                IF stillInFrom THEN numbersOf(from)[field]
                ELSE without(numbersOf(from)[field], fromKey)]
        nextFromTeeChoices ==
            [d \in DayKeys |->
                IF d = moveDay \/ ~stillInFrom
                THEN without(spread(from.teeChoices[d]), fromKey)
                ELSE spread(from.teeChoices[d])]
        fromScoresByDay ==
            coerceScoresByDay(uniqPreserveOrder(fromDay1 \o fromDay2), from.scores)
        toScoresByDay ==
            coerceScoresByDay(uniqPreserveOrder(toDay1 \o toDay2), to.scores)
        moved == valueOr(fromScoresByDay[moveDay], fromKey, EmptyRow)
        nextFromScoresByDay ==
            coerceScoresByDay(nextFromPlayers,
                scoresPatch([fromScoresByDay EXCEPT ![moveDay] = without(@, fromKey)]))
        nextToScoresByDay ==
            coerceScoresByDay(nextToPlayers,
                scoresPatch([toScoresByDay EXCEPT ![moveDay] = withKey(@, toKey, moved)]))
        nextToNumbers ==
            [field \in NumberFields |-> withKey(numbersOf(to)[field], toKey, safe[field])]
        nextToTeeChoices ==
            [d \in DayKeys |->
                IF d = moveDay THEN withKey(spread(to.teeChoices[d]), toKey, tee[d])
                ELSE spread(to.teeChoices[d])]
    IN  IF found.isNull THEN [thrown |-> NoError, store |-> store]
        ELSE IF trim(toKey) = <<>>
        THEN [thrown |-> "Player name is required.", store |-> store]
        ELSE IF ~toExisting.isNull
        THEN [thrown |-> "Player already exists in target foursome", store |-> store]
        ELSE [thrown |-> NoError,
              store |->
                [store EXCEPT
                    ![gid] = withRoster(from, nextFromPlayers, nextFromDay1, nextFromDay2, nextFromNumbers,
                                        nextFromTeeChoices,
                                        scoresPatch(nextFromScoresByDay)),
                    ![moveToGid] = withRoster(to, nextToPlayers, nextToDay1, nextToDay2, nextToNumbers,
                                              nextToTeeChoices,
                                              scoresPatch(nextToScoresByDay))]]

\* The transaction of a rename.
renamePlayer(store, gid, player, nextName, safe, tee) ==
    IF gid \notin DOMAIN store
    THEN [thrown |-> "Group not found", store |-> store]
    ELSE
    LET cur == store[gid]
        curDay1 == rosterOf(cur, "day1")
        curDay2 == rosterOf(cur, "day2")
        curPlayers == uniqPreserveOrder(curDay1 \o curDay2)
        found == findPlayerKey(curPlayers, player)
        curKey == found.s
        nextKey == trim(nextName)
        exists == findLowered(curPlayers, toLowerCase(nextKey))
        renamed(list) ==
            [i \in 1..Len(list) |->
                IF toLowerCase(list[i]) = toLowerCase(curKey) THEN nextKey ELSE list[i]]
        nextPlayers == renamed(curPlayers)
        curScoresByDay == coerceScoresByDay(curPlayers, cur.scores)
        coerced == coerceScoresByDay(nextPlayers, cur.scores)
        nextScoresByDay ==
            [d \in DayKeys |->
                without(withKey(coerced[d], nextKey,
                                valueOr(curScoresByDay[d], curKey, EmptyRow)),
                        curKey)]
        nextNumbers ==
            [field \in NumberFields |->
                without(withKey(numbersOf(cur)[field], nextKey, safe[field]), curKey)]
        nextTeeChoices ==
            [d \in DayKeys |->
                without(withKey(spread(cur.teeChoices[d]), nextKey, tee[d]), curKey)]
    IN  IF found.isNull THEN [thrown |-> NoError, store |-> store]
        ELSE IF nextKey = <<>>
        THEN [thrown |-> "Player name is required.", store |-> store]
        ELSE IF ~exists.isNull
        THEN [thrown |-> "Player already exists", store |-> store]
        ELSE [thrown |-> NoError,
              store |->
                [store EXCEPT
                    ![gid] = withRoster(cur, nextPlayers, renamed(curDay1), renamed(curDay2),
                                        nextNumbers, nextTeeChoices,
                                        scoresPatch(nextScoresByDay))]]

\* the groups of the page's view that hold the player on either day, or the
\* group of the row when there is none
targetsOf(view, gid, player) ==
    LET lowered == toLowerCase(trim(player))
        holding == {g \in DOMAIN view :
                       ~findLowered(rosterOf(view[g], "day1") \o rosterOf(view[g], "day2"),
                                    lowered).isNull}
    IN  IF holding # {} THEN holding ELSE {gid}

\* The transaction that sets the numbers and the tees of a player in the
\* target groups that exist.
mergePlayer(store, targets, player, safe, tee) ==
    [thrown |-> NoError,
     store |->
        [g \in DOMAIN store |->
            IF g \notin targets THEN store[g]
            ELSE [store[g] EXCEPT
                    !.handicaps = Obj(withKey(spread(@), player, safe.handicap)),
                    !.day2HandicapAdjustments = Obj(withKey(spread(@), player, safe.day2Adj)),
                    !.charityStrokes = Obj(withKey(spread(@), player, safe.charity)),
                    !.treeStrokes = Obj(withKey(spread(@), player, safe.tree)),
                    !.teeChoices = [d \in DayKeys |->
                                       Obj(withKey(spread(@[d]), player, tee[d]))]]]]

\* Math.floor(Number(raw || 0)), or 0 when that is not finite
safeNumber(raw) ==
    LET n == floor(toNumber(IF raw = <<>> THEN <<"0">> ELSE raw))
    IN  IF isFinite(n) THEN n ELSE FromInt(0)

\* no field of a row edited
NoEdit ==
    [moveToGid |-> "", name |-> NullStr, handicap |-> NullStr, day2Adj |-> NullStr,
     charity |-> NullStr, tree |-> NullStr, teeDay1 |-> "", teeDay2 |-> ""]

editKey(gid, player) == <<gid, player>>

\* what savePlayerEdits does to the stored groups for a row, its edit and
\* the page's view: the branch taken and the result of its transaction
savePlayerOutcome(store, view, edits, gid, player, day) ==
    LET edit == valueOr(edits, editKey(gid, player), NoEdit)
        moveToGid == edit.moveToGid
        nameDraft == trim(IF edit.name.isNull THEN player ELSE edit.name.s)
        nextName == IF nameDraft # <<>> THEN nameDraft ELSE player
        current == view[gid]
        stored(map, otherwise) ==
            LET v == lookup(map, player, Null) IN IF v.k = "null" THEN otherwise ELSE v
        raw(draft, map) ==
            IF draft.isNull THEN numberToString(stored(map, FromInt(0))) ELSE draft.s
        safe == [handicap |-> safeNumber(raw(edit.handicap, current.handicaps)),
                 day2Adj |-> safeNumber(raw(edit.day2Adj, current.day2HandicapAdjustments)),
                 charity |-> safeNumber(raw(edit.charity, current.charityStrokes)),
                 tree |-> safeNumber(raw(edit.tree, current.treeStrokes))]
        teeOf(draft, d, otherwise) ==
            IF draft # "" THEN draft
            ELSE LET v == lookup(current.teeChoices[d], player, "")
                 IN  IF v = "" THEN otherwise ELSE v
        tee == [day1 |-> teeOf(edit.teeDay1, "day1", "combo"),
                day2 |-> teeOf(edit.teeDay2, "day2", "stampede")]
    IN  IF moveToGid # "" /\ moveToGid # gid
        THEN [branch |-> "move",
              tx |-> movePlayer(store, gid, moveToGid, player, day, nextName, safe, tee)]
        ELSE IF toLowerCase(trim(nextName)) # toLowerCase(trim(player))
        THEN [branch |-> "rename",
              tx |-> renamePlayer(store, gid, player, nextName, safe, tee)]
        ELSE [branch |-> "merge",
              tx |-> mergePlayer(store, targetsOf(view, gid, player), player, safe, tee)]

\* the message of the catch block of savePlayerEdits
savePlayerMessage(thrown) ==
    CASE thrown = "Player already exists in target foursome" ->
             "Could not save player: Player already exists in target foursome"
      [] thrown = "Player already exists" -> "Could not save player: Player already exists"
      [] thrown = "Player name is required." -> "Could not save player: Player name is required."
      [] thrown = "Source group not found" -> "Could not save player: Source group not found"
      [] thrown = "Target group not found" -> "Could not save player: Target group not found"
      [] thrown = "Group not found" -> "Could not save player: Group not found"
      [] OTHER -> "Could not save player: unavailable"

\* what the handlers of the roster table leave alone
besidesRoster ==
    <<engineVars, distanceVars, pageVars, adminVars, saving, timers, saveTimerRef,
      ctpPropagateTimerRef, longestDrivePropagateTimerRef, timerCount, inflight>>

\* rows edited at a time
MaxEdits == 1

\* The listener of the groups collection, which the page starts for an
\* administrator.
AllGroupsOnSnapshot ==
    /\ isAdmin
    /\ allGroups # db
    /\ allGroups' = db
    /\ UNCHANGED <<db, error, observed, playerEdits, addPlayerError, createGroupError,
                   day1LockError>>
    /\ UNCHANGED besidesRoster

\* the rows of the roster table: the groups of the view and their players
\* of the roster day; a call made while no row is shown names a row of the
\* page's group
RowGroups == IF allGroups # <<>> THEN DOMAIN allGroups ELSE {groupId}

RowPlayers(gid, day) ==
    IF gid \in DOMAIN allGroups THEN Range(rosterOf(allGroups[gid], day)) ELSE {al}

\* getFoursomeNumber: the first run of digits of the title, as a number
getFoursomeNumber(data) ==
    LET title == trim(orEmpty(data.groupName))
        starts == {i \in 1..Len(title) : isDigit(title[i])}
        first == CHOOSE i \in starts : \A j \in starts : i <= j
    IN  IF starts = {} THEN Null
        ELSE floor(Num(digitsValue(SubSeq(title, first, runEnd(title, first))) * Denom))

\* the groups of the view that have a foursome number
foursomeOptions == {g \in DOMAIN allGroups : getFoursomeNumber(allGroups[g]).k = "num"}

NameDrafts == {NullStr, Str(Al), Str(cy)}

HandicapDrafts == {NullStr, Str(<<"-", "2">>)}

\* onChange of the inputs of a row: the name, the foursome and the
\* handicap are edited
PlayerEditChange ==
    /\ isAdmin
    /\ observed.events < MaxEvents
    /\ observed' = [observed EXCEPT !.events = @ + 1, !.lastEvent = [kind |-> "edit"]]
    /\ Cardinality(DOMAIN playerEdits) < MaxEdits
    /\ \E gid \in DOMAIN allGroups, rosterDay \in DayKeys :
       \E player \in RowPlayers(gid, rosterDay), moveToGid \in {""} \cup foursomeOptions,
          name \in NameDrafts, handicap \in HandicapDrafts :
            /\ [NoEdit EXCEPT !.moveToGid = moveToGid, !.name = name,
                              !.handicap = handicap] # NoEdit
            /\ playerEdits' =
                   withKey(playerEdits, editKey(gid, player),
                           [NoEdit EXCEPT !.moveToGid = moveToGid, !.name = name,
                                          !.handicap = handicap])
    /\ UNCHANGED <<db, error, allGroups, addPlayerError, createGroupError, day1LockError>>
    /\ UNCHANGED besidesRoster

\* savePlayerEdits for a row and the roster day: the transaction commits
\* or throws, or the store rejects it
SavePlayerEdits ==
    /\ observed.events < MaxEvents
    /\ \E gid \in RowGroups, day \in DayKeys, available \in BOOLEAN :
       \E player \in RowPlayers(gid, day) :
       \E out \in {IF gid \in DOMAIN allGroups
                   THEN savePlayerOutcome(db, allGroups, playerEdits, gid, player, day)
                   ELSE [branch |-> "none", tx |-> [thrown |-> NoError, store |-> db]]} :
       \E thrown \in {IF available THEN out.tx.thrown ELSE "unavailable"} :
            /\ observed' =
                   [observed EXCEPT
                       !.events = @ + 1,
                       !.lastEvent =
                           [kind |-> "savePlayerEdits", admin |-> isAdmin, gid |-> gid,
                            player |-> player, day |-> day,
                            edit |-> valueOr(playerEdits, editKey(gid, player), NoEdit),
                            branch |-> IF isAdmin THEN out.branch ELSE "none",
                            thrown |-> IF isAdmin /\ out.branch # "none" THEN thrown
                                       ELSE NoError]]
            /\ IF ~isAdmin
               THEN /\ error' = AdminRequired
                    /\ UNCHANGED <<db, playerEdits>>
               ELSE IF out.branch = "none"
               THEN UNCHANGED <<db, error, playerEdits>>
               ELSE IF thrown # NoError
               THEN /\ error' = savePlayerMessage(thrown)
                    /\ UNCHANGED <<db, playerEdits>>
               ELSE /\ db' = out.tx.store
                    /\ error' = NoError
                    /\ playerEdits' = without(playerEdits, editKey(gid, player))
    /\ UNCHANGED <<allGroups, addPlayerError, createGroupError, day1LockError>>
    /\ UNCHANGED besidesRoster

\* the fields deletePlayerFromGroup sets, computed from the page's view of
\* the group
withoutPlayer(current, player) ==
    LET curDay1 == rosterOf(current, "day1")
        curDay2 == rosterOf(current, "day2")
        found == findPlayerKey(uniqPreserveOrder(curDay1 \o curDay2), player)
        curKey == found.s
        lowered == toLowerCase(curKey)
        nextDay1 == filterLowered(curDay1, lowered)
        nextDay2 == filterLowered(curDay2, lowered)
        nextPlayers == uniqPreserveOrder(nextDay1 \o nextDay2)
    IN  IF found.isNull THEN [found |-> FALSE, fields |-> current]
        ELSE [found |-> TRUE,
              fields |->
                withRoster(current, nextPlayers, nextDay1, nextDay2,
                           [field \in NumberFields |->
                               without(numbersOf(current)[field], curKey)],
                           [d \in DayKeys |-> without(spread(current.teeChoices[d]), curKey)],
                           scoresPatch(coerceScoresByDay(nextPlayers, current.scores)))]

\* updateDoc with the fields of a roster update
setRoster(data, fields) ==
    [data EXCEPT
        !.playerNames = fields.playerNames,
        !.playerNamesByDay = fields.playerNamesByDay,
        !.handicaps = fields.handicaps,
        !.day2HandicapAdjustments = fields.day2HandicapAdjustments,
        !.charityStrokes = fields.charityStrokes,
        !.treeStrokes = fields.treeStrokes,
        !.teeChoices = fields.teeChoices,
        !.scores = fields.scores]

\* deletePlayerFromGroup for a row, the question confirmed or not
DeletePlayerFromGroup ==
    /\ observed.events < MaxEvents
    /\ \E gid \in RowGroups, day \in DayKeys, ok \in BOOLEAN, available \in BOOLEAN :
       \E player \in RowPlayers(gid, day) :
       \E out \in {IF gid \in DOMAIN allGroups THEN withoutPlayer(allGroups[gid], player)
                   ELSE [found |-> FALSE, fields |-> EmptyDoc]} :
       \E wrote \in {isAdmin /\ ok /\ out.found /\ available /\ gid \in DOMAIN db} :
            /\ observed' =
                   [observed EXCEPT
                       !.events = @ + 1,
                       !.lastEvent = [kind |-> "deletePlayerFromGroup", admin |-> isAdmin,
                                      gid |-> gid, player |-> player, wrote |-> wrote]]
            /\ db' = IF wrote THEN [db EXCEPT ![gid] = setRoster(@, out.fields)] ELSE db
            /\ error' = IF ~isAdmin THEN AdminRequired
                        ELSE IF gid \notin DOMAIN allGroups \/ ~ok THEN error
                        ELSE IF out.found /\ ~wrote THEN "Could not delete player"
                        ELSE NoError
    /\ UNCHANGED <<allGroups, playerEdits, addPlayerError, createGroupError, day1LockError>>
    /\ UNCHANGED besidesRoster

\* the group of the view with the foursome number n; of several groups
\* with the number it is the first in the order of their ids, which the
\* store draws
gidByFoursomeNumber(n) ==
    LET having == {g \in foursomeOptions : getFoursomeNumber(allGroups[g]) = n}
    IN  IF having = {} THEN {""} ELSE having

\* The transaction of addPlayerToFoursome.
addPlayer(store, gid, name, safe, tee) ==
    IF gid \notin DOMAIN store
    THEN [thrown |-> "Group not found", store |-> store]
    ELSE
    LET cur == store[gid]
        curDay1 == rosterOf(cur, "day1")
        curDay2 == rosterOf(cur, "day2")
        curPlayers == uniqPreserveOrder(curDay1 \o curDay2)
        exists == findLowered(curPlayers, toLowerCase(name))
        nextDay1 == uniqPreserveOrder(Append(curDay1, name))
        nextDay2 == uniqPreserveOrder(Append(curDay2, name))
        nextPlayers == uniqPreserveOrder(nextDay1 \o nextDay2)
    IN  IF ~exists.isNull THEN [thrown |-> "Player already exists", store |-> store]
        ELSE [thrown |-> NoError,
              store |->
                [store EXCEPT
                    ![gid] =
                        withRoster(cur, nextPlayers, nextDay1, nextDay2,
                                   [field \in NumberFields |->
                                       withKey(numbersOf(cur)[field], name, safe[field])],
                                   [d \in DayKeys |->
                                       withKey(spread(cur.teeChoices[d]), name, tee[d])],
                                   scoresPatch(coerceScoresByDay(nextPlayers, cur.scores)))]]

AddNameTexts == {<<>>, cy, <<" ", "A", "l">>}

FoursomeTexts == {<<>>, <<"1">>, <<"9">>}

\* addPlayerToFoursome with the texts of its form; the numbers and tees of
\* the form are as the form starts
AddPlayerToFoursome ==
    /\ observed.events < MaxEvents
    /\ \E addPlayerName \in AddNameTexts, addPlayerFoursome \in FoursomeTexts,
          available \in BOOLEAN :
       \E name \in {trim(addPlayerName)},
          foursomeNum \in {floor(toNumber(IF addPlayerFoursome = <<>> THEN <<"0">>
                                          ELSE addPlayerFoursome))} :
       \E gid \in gidByFoursomeNumber(foursomeNum) :
       \E refused \in {IF name = <<>> THEN "Enter a player name."
                       ELSE IF ~isFinite(foursomeNum) \/ ~lessThan(FromInt(0), foursomeNum)
                       THEN "Enter a valid foursome number"
                       ELSE IF gid = "" THEN "Foursome not found. Create it first."
                       ELSE NoError} :
       \E tx \in {IF ~available THEN [thrown |-> "unavailable", store |-> db]
                  ELSE IF refused # NoError THEN [thrown |-> NoError, store |-> db]
                  ELSE addPlayer(db, gid, name,
                                 [handicap |-> safeNumber(<<"0">>), day2Adj |-> safeNumber(<<"0">>),
                                  charity |-> safeNumber(<<"0">>), tree |-> safeNumber(<<"0">>)],
                                 [day1 |-> "combo", day2 |-> "stampede"])} :
            /\ observed' =
                   [observed EXCEPT
                       !.events = @ + 1,
                       !.lastEvent = [kind |-> "addPlayerToFoursome", admin |-> isAdmin,
                                      name |-> name, gid |-> gid,
                                      wrote |-> isAdmin /\ refused = NoError
                                                  /\ tx.thrown = NoError]]
            /\ IF ~isAdmin
               THEN /\ error' = AdminRequired
                    /\ UNCHANGED <<db, addPlayerError>>
               ELSE IF refused # NoError
               THEN /\ addPlayerError' = refused
                    /\ UNCHANGED <<db, error>>
               ELSE /\ addPlayerError' = tx.thrown
                    /\ db' = tx.store
                    /\ UNCHANGED error
    /\ UNCHANGED <<allGroups, playerEdits, createGroupError, day1LockError>>
    /\ UNCHANGED besidesRoster

RECURSIVE playersFrom(_, _, _)
\* the parts of s from position i on, cut at commas and line ends, trimmed,
\* the empty ones left out
playersFrom(s, i, current) ==
    LET done == IF trim(current) = <<>> THEN <<>> ELSE <<trim(current)>>
    IN  IF i > Len(s) THEN done
        ELSE IF s[i] \in {",", "\n"} THEN done \o playersFrom(s, i + 1, <<>>)
        ELSE playersFrom(s, i + 1, Append(current, s[i]))

parsePlayersDraft(raw) == playersFrom(raw, 1, <<>>)

\* `Foursome ${n}`
foursomeName(n) == <<"F", "o", "u", "r", "s", "o", "m", "e", " ">> \o numberToString(n)

\* the document createNewGroup adds
newGroup(name, players, tournament) ==
    [EmptyDoc EXCEPT
        !.groupName = Str(name),
        !.playerNames = Arr(players),
        !.playerNamesByDay = [day1 |-> Arr(players), day2 |-> Arr(players)],
        !.day1ScoresLocked = FALSE,
        !.scores = scoresPatch(coerceScoresByDay(players, NoScores)),
        !.handicaps = Obj(coerceNumberMap(players, NoObject, FromInt(0))),
        !.day2HandicapAdjustments = Obj(coerceNumberMap(players, NoObject, FromInt(0))),
        !.teeChoices = [day1 |-> Obj(coerceTeeMap(players, NoObject, "combo")),
                        day2 |-> Obj(coerceTeeMap(players, NoObject, "stampede"))],
        !.charityStrokes = Obj(coerceNumberMap(players, NoObject, FromInt(0))),
        !.treeStrokes = Obj(coerceNumberMap(players, NoObject, FromInt(0))),
        !.tournament = tournament]

PinTexts == {<<>>, <<"7">>}

PlayersTexts == {<<>>, <<"c", "y", ",", " ", "C", "y", "\n", "a", "l">>}

\* createNewGroup with the texts of its form, while the store has an id
\* left
CreateNewGroup ==
    /\ observed.events < MaxEvents
    /\ GroupIds \ DOMAIN db # {}
    /\ \E newPinDraft \in PinTexts, newFoursomeNumberDraft \in FoursomeTexts,
          newPlayersDraft \in PlayersTexts, available \in BOOLEAN :
       \E n \in {floor(toNumber(IF newFoursomeNumberDraft = <<>> THEN <<"0">>
                                ELSE newFoursomeNumberDraft))},
          players \in {uniqPreserveOrder(parsePlayersDraft(newPlayersDraft))},
          id \in {CHOOSE g \in GroupIds \ DOMAIN db : TRUE} :
       \E refused \in {IF trim(newPinDraft) = <<>> THEN "Enter a PIN for the new group."
                       ELSE IF ~(isFinite(n) /\ lessThan(FromInt(0), n))
                       THEN "Enter a foursome number"
                       ELSE IF Len(players) = 0
                       THEN "Enter at least one player for the new group."
                       ELSE NoError} :
            /\ observed' =
                   [observed EXCEPT
                       !.events = @ + 1,
                       !.lastEvent = [kind |-> "createNewGroup", admin |-> isAdmin,
                                      wrote |-> isAdmin /\ refused = NoError /\ available]]
            /\ IF ~isAdmin
               THEN /\ error' = AdminRequired
                    /\ UNCHANGED <<db, createGroupError>>
               ELSE IF refused # NoError
               THEN /\ createGroupError' = refused
                    /\ UNCHANGED <<db, error>>
               ELSE IF ~available
               THEN /\ createGroupError' = "Could not create group"
                    /\ UNCHANGED <<db, error>>
               ELSE /\ createGroupError' = NoError
                    /\ db' = withKey(db, id,
                                     newGroup(foursomeName(n), players,
                                              IF group.isNull THEN EmptyDoc.tournament
                                              ELSE group.data.tournament))
                    /\ UNCHANGED error
    /\ UNCHANGED <<allGroups, playerEdits, addPlayerError, day1LockError>>
    /\ UNCHANGED besidesRoster

\* the stored groups of the roster table: a first foursome whose rosters
\* are the same on both days, differ, or are in the one-day format, and a
\* second foursome
Foursome1Shapes == {"same", "mixed", "legacy"}

Foursome1(shape) ==
    [EmptyDoc EXCEPT
        !.groupName = Str(foursomeName(FromInt(1))),
        !.playerNames = IF shape = "legacy" THEN Arr(<<al, Bo>>) ELSE NoArray,
        !.playerNamesByDay =
            CASE shape = "same" -> [day1 |-> Arr(<<al, Bo>>), day2 |-> Arr(<<al, Bo>>)]
              [] shape = "mixed" -> [day1 |-> Arr(<<al, Bo>>), day2 |-> Arr(<<Bo>>)]
              [] shape = "legacy" -> [day1 |-> NoArray, day2 |-> NoArray],
        !.scores =
            IF shape = "legacy"
            THEN [isObject |-> TRUE, byDay |-> <<>>,
                  flat |-> [p \in {al, Bo} |-> Arr(IF p = al THEN AllFours ELSE FrontNine)]]
            ELSE [isObject |-> TRUE,
                  byDay |-> [d \in DayKeys |->
                                Obj([p \in {al, Bo} |->
                                        Arr(IF p = al /\ d = "day1" THEN AllFours
                                            ELSE IF p = al THEN FrontNine
                                            ELSE AllFives)])],
                  flat |-> <<>>],
        !.handicaps = Obj([p \in {al, Bo} |-> FromInt(IF p = al THEN 3 ELSE 0)]),
        !.teeChoices = [day1 |-> Obj([p \in {al} |-> "tips"]), day2 |-> NoObject],
        !.tournament = PageDoc.tournament]

Foursome2 ==
    [EmptyDoc EXCEPT
        !.groupName = Str(foursomeName(FromInt(2))),
        !.playerNamesByDay = [day1 |-> Arr(<<Al, cy>>), day2 |-> Arr(<<Al, cy>>)],
        !.scores = [isObject |-> TRUE,
                    byDay |-> [d \in DayKeys |->
                                  Obj([p \in {Al, cy} |->
                                          Arr(IF p = Al /\ d = "day2" THEN AllFives
                                              ELSE FrontNine)])],
                    flat |-> <<>>],
        !.handicaps = Obj([p \in {Al, cy} |-> FromInt(IF p = Al THEN 7 ELSE 1)])]

\* the admin page as it is mounted, somebody signed in or nobody, and the
\* first foursome in one of the shapes
rosterStart(shapes) ==
    /\ EngineInit
    /\ PageInit
    /\ TimerInit
    /\ DistanceInit
    /\ RosterInit
    /\ \E signIn \in SignIns :
        /\ adminUser = signIn.user
        /\ allowedAdminEmails = signIn.allowed
    /\ day1ParsDraft = <<>>
    /\ day2ParsDraft = <<>>
    /\ day1HcpsDraft = <<>>
    /\ day2HcpsDraft = <<>>
    /\ scorecardError = NoError
    /\ \E shape \in shapes :
        db = [g \in {"g1", "g2"} |-> IF g = "g1" THEN Foursome1(shape) ELSE Foursome2]

InitRoster == rosterStart(Foursome1Shapes)

NextRoster ==
    \/ AllGroupsOnSnapshot
    \/ PlayerEditChange
    \/ SavePlayerEdits

SpecRoster == InitRoster /\ [][NextRoster]_vars

\* the six handlers of the admin page that write to the store; the
\* scorecard form is empty
NextHandlers ==
    \/ AllGroupsOnSnapshot
    \/ SavePlayerEdits
    \/ DeletePlayerFromGroup
    \/ AddPlayerToFoursome
    \/ CreateNewGroup
    \/ SaveScorecards
    \/ SetDay1ScoresLocked

InitHandlers == rosterStart({"same"})

SpecHandlers == InitHandlers /\ [][NextHandlers]_vars

(***************************************************************************)
(* The distance inputs.  The feet and the inches input hand their text to  *)
(* formatFeetInches, and the page shows the stored note through            *)
(* parseFeetInches.  A behaviour is one call.                              *)
(***************************************************************************)
\* texts that are not the decimal form of a number
OddTexts ==
    {<<>>, <<" ">>, <<" ", "3", " ">>, <<"0", "7">>, <<"3", ".", "5">>,
     <<"-", "2">>, <<"x">>, <<"1", "x">>}

FeetTexts == {toDigits(n) : n \in 0..MaxFeet} \cup OddTexts

InchesTexts == {toDigits(n) : n \in 0..MaxInches} \cup OddTexts

\* notes as they are found in documents
NoteTexts ==
    {<<"3", " ", "f", "t", " ", "7", " ", "i", "n">>,
     <<"3", "F", "T">>,
     <<"1", "2", " ", "f", "e", "e", "t", " ", "2">>,
     <<"3", " ", "7">>,
     <<"3", "-", "7">>,
     <<"5">>,
     <<"a", "b", "c">>,
     <<"7", " ", "'">>,
     <<"a", " ", "4", "'", "1", "1", "\"", " ", "b">>,
     <<"2", " ", "5", "'">>,
     <<" ", "1", "0", "'", " ">>,
     <<"2", " ", "i", "n">>}

CallFormatFeetInches ==
    /\ fn = "none"
    /\ \E f \in FeetTexts, i \in InchesTexts :
           /\ fn' = "formatFeetInches"
           /\ feetRaw' = f
           /\ inchesRaw' = i
           /\ note' = formatFeetInches(f, i)
           /\ distance' = parseFeetInches(formatFeetInches(f, i))
    /\ UNCHANGED <<holeStrokeIndex, totalStrokes, scores, hcps, pars, net, charity, result>>
    /\ UNCHANGED <<db, pageVars, timerVars, adminVars, rosterVars>>

CallParseFeetInches ==
    /\ fn = "none"
    /\ \E t \in NoteTexts :
           /\ fn' = "parseFeetInches"
           /\ note' = t
           /\ distance' = parseFeetInches(t)
    /\ UNCHANGED <<feetRaw, inchesRaw>>
    /\ UNCHANGED <<holeStrokeIndex, totalStrokes, scores, hcps, pars, net, charity, result>>
    /\ UNCHANGED <<db, pageVars, timerVars, adminVars, rosterVars>>

NextDistance ==
    \/ CallFormatFeetInches
    \/ CallParseFeetInches

SpecDistance == Init /\ [][NextDistance]_vars

(***************************************************************************)
(* Properties.  Values are compared in units of 1 / Denom: the integer i   *)
(* is i * Denom.                                                           *)
(***************************************************************************)
RECURSIVE SumOver(_, _)
SumOver(S, f) ==
    IF S = {} THEN 0
    ELSE LET x == CHOOSE y \in S : TRUE
         IN  f[x] + SumOver(S \ {x}, f)

IsWhole(x) == x.k = "num" /\ x.v % Denom = 0

InRange(h) == h.k = "num" /\ h.v >= 1 * Denom /\ h.v <= 18 * Denom

\* C1: strokesForHole(idx, total) is 0 for every idx outside [1,18],
\* whatever total is, and for every total whose floor is <= 0, whatever
\* idx is.
C1_StrokesZeroOutsideRange ==
    fn = "strokesForHole" =>
        LET floorNotPositive == totalStrokes.k = "num" /\ totalStrokes.v \div Denom <= 0
        IN  (~InRange(holeStrokeIndex) \/ floorNotPositive) => result = Num(0)

C1_Witness ==
    /\ fn = "strokesForHole"
    /\ holeStrokeIndex = FromInt(19)
    /\ totalStrokes = FromInt(20)
    /\ result = Num(0)

\* C2: for idx in [1,18] and an integer total >= 1, strokesForHole is 0
\* when total < idx and 1 + floor((total - idx) / 18) otherwise; so for
\* total in [1,18] it is 1 iff total >= idx, and for total = 18 + idx it
\* is 2.
C2_StrokesClosedForm ==
    (fn = "strokesForHole" /\ InRange(holeStrokeIndex)
        /\ IsWhole(totalStrokes) /\ totalStrokes.v >= 1 * Denom) =>
        LET idx == holeStrokeIndex.v
            total == totalStrokes.v
        IN  /\ result.k = "num"
            /\ total < idx => result.v = 0
            /\ total >= idx =>
                   result.v = (1 + ((total - idx) \div (18 * Denom))) * Denom
            /\ total <= 18 * Denom =>
                   /\ result.v \in {0, 1 * Denom}
                   /\ result.v = 1 * Denom <=> total >= idx
            /\ total = 18 * Denom + idx => result.v = 2 * Denom

C2_Witness ==
    /\ fn = "strokesForHole"
    /\ holeStrokeIndex = FromInt(5)
    /\ totalStrokes = FromInt(23)
    /\ result = FromInt(2)

\* C3: hardest holes first: for an integer total T >= 0 the strokes of the
\* stroke indexes 1..18 add up to exactly T, and for indexes i < j the
\* strokes of i are at least those of j and at most one more.
C3_StrokesDistribution ==
    (fn = "strokesForHole" /\ IsWhole(totalStrokes) /\ totalStrokes.v >= 0) =>
        LET strokes == [i \in 1..18 |-> strokesForHole(FromInt(i), totalStrokes).v]
        IN  /\ SumOver(1..18, strokes) = totalStrokes.v
            /\ \A i, j \in 1..18 :
                   i < j => /\ strokes[i] >= strokes[j]
                            /\ strokes[i] - strokes[j] <= 1 * Denom

C3_Witness ==
    /\ fn = "strokesForHole"
    /\ totalStrokes = FromInt(23)
    /\ holeStrokeIndex = FromInt(6)
    /\ result = FromInt(1)
    /\ strokesForHole(FromInt(5), totalStrokes) = FromInt(2)

\* An entry that is a number (not null), and one that is a valid score.
HasScore(x) == x.k # "null"

ValidEntry(x) == x.k = "num" /\ x.v >= 0

Complete(arr) == Len(arr) = 18 /\ \A i \in 1..18 : ValidEntry(arr[i])

Has18(x) == x.isArray /\ Len(x.elems) = 18

\* the sum of the entries that are numbers
GrossOf(arr) ==
    SumOver({i \in 1..Len(arr) : HasScore(arr[i])}, [i \in 1..Len(arr) |-> arr[i].v])

ParOf(x) == SumOver(1..Len(x.elems), [i \in 1..Len(x.elems) |-> x.elems[i].v])

WholePart(x) == (x.v \div Denom) * Denom

\* C4: without a valid stroke-index table (absent, not an array, not 18
\* long) computeNetRunningTotal returns the sum of the scored holes when
\* the round is incomplete, and that sum minus floor(totalStrokes) when it
\* is complete; eighteen 4s with totalStrokes 10 give 62.
C4_FallbackNet ==
    (fn = "computeNetRunningTotal" /\ ~Has18(hcps)) =>
        /\ ~Complete(scores) => result = Num(GrossOf(scores))
        /\ (Complete(scores) /\ totalStrokes.k = "num") =>
               result = Num(GrossOf(scores) - WholePart(totalStrokes))
        /\ (scores = [i \in 1..18 |-> FromInt(4)] /\ totalStrokes = FromInt(10)) =>
               result = FromInt(62)

C4_Witness ==
    /\ fn = "computeNetRunningTotal"
    /\ hcps = NoArray
    /\ scores = [i \in 1..18 |-> FromInt(4)]
    /\ totalStrokes = FromInt(10)
    /\ result = FromInt(62)

\* C5: with an 18-entry stroke-index table computeNetRunningTotal returns
\* the sum, over exactly the holes that have a score, of the score minus
\* strokesForHole(table[hole], totalStrokes); a hole without a score adds
\* neither gross nor handicap strokes.
C5_PerHoleNet ==
    (fn = "computeNetRunningTotal" /\ Has18(hcps)) =>
        LET scored == {i \in 1..Len(scores) : HasScore(scores[i])}
            netOfHole == [i \in 1..Len(scores) |->
                             scores[i].v - strokesForHole(hcps.elems[i], totalStrokes).v]
        IN  result = Num(SumOver(scored, netOfHole))

\* C5 on the rounds that hold no negative entry, where it holds: the only
\* rounds that break it are those with a stored score below zero, which
\* sum counts in the gross and the allocation loop skips.
C5_PerHoleNetOfValidRounds ==
    (fn = "computeNetRunningTotal" /\ Has18(hcps)
        /\ \A i \in 1..Len(scores) : HasScore(scores[i]) => ValidEntry(scores[i])) =>
        LET scored == {i \in 1..Len(scores) : HasScore(scores[i])}
            netOfHole == [i \in 1..Len(scores) |->
                             scores[i].v - strokesForHole(hcps.elems[i], totalStrokes).v]
        IN  result = Num(SumOver(scored, netOfHole))

\* C6: computeNetToPar returns null if and only if the round is incomplete
\* or the par table is not an 18-entry array, whatever the stroke-index
\* table and totalStrokes are.
C6_NetToParNullIff ==
    fn = "computeNetToPar" =>
        (result = Null <=> (~Complete(scores) \/ ~Has18(pars)))

C6_Witness ==
    /\ fn = "computeNetToPar"
    /\ Has18(pars)
    /\ Has18(hcps)
    /\ Len(scores) = 18
    /\ scores[18] = Null
    /\ \A i \in 1..17 : ValidEntry(scores[i])
    /\ totalStrokes = FromInt(18)
    /\ result = Null

\* C7: for a complete round, an 18-entry par table and an 18-entry
\* stroke-index table computeNetToPar is the sum over the 18 holes of
\* score minus strokesForHole(table[hole], totalStrokes), minus the sum of
\* the pars; pars all 4, scores all 4, table 1..18 and totalStrokes 18
\* give -18.
C7_NetToParByHole ==
    (fn = "computeNetToPar" /\ Complete(scores) /\ Has18(pars) /\ Has18(hcps)) =>
        LET netOfHole == [i \in 1..18 |->
                             scores[i].v - strokesForHole(hcps.elems[i], totalStrokes).v]
        IN  /\ result = Num(SumOver(1..18, netOfHole) - ParOf(pars))
            /\ (/\ scores = [i \in 1..18 |-> FromInt(4)]
                /\ pars = Arr([i \in 1..18 |-> FromInt(4)])
                /\ hcps = Arr([i \in 1..18 |-> FromInt(i)])
                /\ totalStrokes = FromInt(18)) =>
                   /\ \A i \in 1..18 : netOfHole[i] = 3 * Denom
                   /\ result = FromInt(-18)

C7_Witness ==
    /\ fn = "computeNetToPar"
    /\ scores = [i \in 1..18 |-> FromInt(4)]
    /\ pars = Arr([i \in 1..18 |-> FromInt(4)])
    /\ hcps = Arr([i \in 1..18 |-> FromInt(i)])
    /\ totalStrokes = FromInt(18)
    /\ result = FromInt(-18)

\* C8: for a complete round, an 18-entry par table, a non-negative integer
\* totalStrokes and a stroke-index table that is a permutation of 1..18,
\* computeNetToPar with the table equals computeNetToPar without a table:
\* gross total - totalStrokes - total par.
IsPermutation(x) ==
    Has18(x) /\ {x.elems[i] : i \in 1..18} = {FromInt(i) : i \in 1..18}

C8_FallbackSameTotal ==
    (fn = "computeNetToPar" /\ Complete(scores) /\ Has18(pars)
        /\ IsPermutation(hcps) /\ IsWhole(totalStrokes) /\ totalStrokes.v >= 0) =>
        /\ result = Num(GrossOf(scores) - totalStrokes.v - ParOf(pars))
        /\ result = computeNetToPar(scores, pars, NoArray, totalStrokes)

C8_Witness ==
    /\ fn = "computeNetToPar"
    /\ Complete(scores)
    /\ Has18(pars)
    /\ IsPermutation(hcps)
    /\ hcps.elems[1] # FromInt(1)
    /\ totalStrokes = FromInt(20)
    /\ result = Num(GrossOf(scores) - 20 * Denom - ParOf(pars))

\* C9: computeToParSoFar returns null when the par table is not an
\* 18-entry array or no hole has a valid score; otherwise the sum of score
\* minus par over exactly the holes scored so far, whatever the row's
\* handicap and penalty strokes are.
C9_ToParSoFar ==
    fn = "computeToParSoFar" =>
        LET valid == {i \in 1..Len(scores) : ValidEntry(scores[i])}
            overPar == [i \in valid |-> scores[i].v - pars.elems[i].v]
        IN  IF ~Has18(pars) \/ valid = {}
            THEN result = Null
            ELSE result = Num(SumOver(valid, overPar))

C9_Witness ==
    /\ fn = "computeToParSoFar"
    /\ pars = Arr([i \in 1..18 |-> FromInt(4)])
    /\ {i \in 1..Len(scores) : ValidEntry(scores[i])} = {1, 2}
    /\ scores[1] = FromInt(4)
    /\ scores[2] = FromInt(5)
    /\ totalStrokes = FromInt(10)
    /\ result = FromInt(1)

\* C10: applyCharityAtEnd(net, scores, penalty) returns net - floor(penalty)
\* exactly when the round is complete and floor(penalty) > 0, and net
\* unchanged otherwise (incomplete round, penalty <= 0 or not finite).
C10_CharityAtEnd ==
    fn = "applyCharityAtEnd" =>
        LET applies == /\ Complete(scores)
                       /\ charity.k = "num"
                       /\ charity.v \div Denom > 0
        IN  result = IF applies THEN Num(net.v - WholePart(charity)) ELSE net

C10_Witness ==
    /\ fn = "applyCharityAtEnd"
    /\ Complete(scores)
    /\ charity = Num(2 * Denom + 1)
    /\ net = FromInt(62)
    /\ result = FromInt(60)

(***************************************************************************)
(* C11..C13: the leaderboards and the score tables of a stored document.   *)
(***************************************************************************)
\* the names of the rosters, in the order of the names
NamesInOrder == <<al, Al, Bo, cy>>

NameRank(name) == CHOOSE i \in 1..Len(NamesInOrder) : NamesInOrder[i] = name

Occurrences(seq, x) == Cardinality({i \in 1..Len(seq) : seq[i] = x})

\* row a may stand before row b: lower net, then lower gross, then the name
InOrder(a, b) ==
    \/ a.net.v < b.net.v
    \/ a.net.v = b.net.v /\ a.gross.v < b.gross.v
    \/ a.net.v = b.net.v /\ a.gross.v = b.gross.v
                         /\ NameRank(a.player) <= NameRank(b.player)

SortedBoard(board, roster) ==
    /\ Len(board) = Len(roster)
    /\ \A i \in 1..Len(roster) :
           Occurrences([j \in 1..Len(board) |-> board[j].player], roster[i])
               = Occurrences(roster, roster[i])
    /\ \A i, j \in 1..Len(board) : i < j => InOrder(board[i], board[j])
    /\ \A i, j \in 1..Len(board) :
           board[i].player = board[j].player => board[i] = board[j]

\* C11: each day's leaderboard holds the players of that day's roster, each
\* as often as the roster names them, in ascending order of net, then of
\* gross, then of name; rows of one name are the same row, so the order is
\* a function of the inputs.
C11_LeaderboardSorted ==
    /\ SortedBoard(day1Leaderboard, playersDay1)
    /\ SortedBoard(day2Leaderboard, playersDay2)

\* two players tied on net and gross stand in the order of their names,
\* against the order of the roster
C11_Witness ==
    /\ ~group.isNull
    /\ playersDay1 = <<cy, Bo, al>>
    /\ LET board == day1Leaderboard
       IN  /\ Len(board) = 3
           /\ board[1].player = al
           /\ board[2].player = Bo
           /\ board[1].net = board[2].net
           /\ board[1].gross = board[2].gross

\* the bonus of a tee on day 1, in strokes
BonusOfTee(tee) == IF tee = "three" THEN 1 ELSE IF tee = "four" THEN 2 ELSE 0

\* the net of player p on a day when totalStrokes strokes are allocated
NetWith(day, p, total) ==
    LET played == valueOr(scoresByDay[day], p, <<>>)
        orNulls == valueOr(scoresByDay[day], p, [i \in 1..18 |-> Null])
        table == group.data.tournament[IF day = "day1" THEN "day1Hcps" ELSE "day2Hcps"]
        penalty == Num(valueOr(charityStrokes, p, Num(0)).v + valueOr(treeStrokes, p, Num(0)).v)
    IN  applyCharityAtEnd(
            computeNetRunningTotal(orNulls, IF Has18(table) THEN table ELSE NoArray, total),
            played, penalty)

HandicapOf(p) == valueOr(handicaps, p, Num(0)).v

AdjustmentOf(p) == valueOr(day2Adjustments, p, Num(0)).v

\* C12: a Day 1 row is computed with totalStrokes = handicap + tee bonus
\* (1 for "three", 2 for "four", 0 otherwise) and without the day-2
\* adjustment; a Day 2 row with totalStrokes = handicap + day-2 adjustment
\* and no tee bonus, whatever the tee.
C12_AllocationComposition ==
    LET board1 == day1Leaderboard
        board2 == day2Leaderboard
    IN  /\ \A i \in 1..Len(board1) :
               LET p == board1[i].player
                   total == Num(HandicapOf(p)
                                  + BonusOfTee(valueOr(teeChoicesByDay.day1, p, "")) * Denom)
               IN  /\ allocationStrokesDay1(p) = total
                   /\ board1[i].net = NetWith("day1", p, total)
                   /\ board1[i].adjustment = Num(0)
        /\ \A i \in 1..Len(board2) :
               LET p == board2[i].player
                   total == Num(HandicapOf(p) + AdjustmentOf(p))
               IN  /\ allocationStrokesDay2(p) = total
                   /\ board2[i].net = NetWith("day2", p, total)
                   /\ board2[i].adjustment = Num(AdjustmentOf(p))

\* al plays off 10 with tee "three" on day 1 (11 strokes, net 72 - 11 - 2)
\* and with adjustment -2 and tee "four" on day 2 (8 strokes, net 72 - 8 - 2)
C12_Witness ==
    /\ ~group.isNull
    /\ isTable(group.data.tournament.day1Hcps)
    /\ al \in DOMAIN handicaps
    /\ handicaps[al] = FromInt(10) /\ day2Adjustments[al] = FromInt(-2)
    /\ teeChoicesByDay.day1[al] = "three" /\ teeChoicesByDay.day2[al] = "four"
    /\ LET board1 == day1Leaderboard
           board2 == day2Leaderboard
       IN  /\ \E i \in 1..Len(board1) :
                  board1[i].player = al /\ board1[i].net = FromInt(59)
           /\ \E i \in 1..Len(board2) :
                  board2[i].player = al /\ board2[i].net = FromInt(62)

\* the players the snapshot listener hands to coerceScoresByDay
AllPlayers == Range(uniqPreserveOrder(playersDay1 \o playersDay2))

\* C13: after a document is read, every player of the roster has exactly 18
\* entries for each day, and every entry is null or a finite number that
\* is not negative.
C13_CoercedScores ==
    ~group.isNull =>
        \A d \in {"day1", "day2"} : \A p \in AllPlayers :
            /\ p \in DOMAIN scoresByDay[d]
            /\ Len(scoresByDay[d][p]) = 18
            /\ \A i \in 1..18 :
                   \/ scoresByDay[d][p][i] = Null
                   \/ scoresByDay[d][p][i].k = "num" /\ scoresByDay[d][p][i].v >= 0

\* What the code does ensure: 18 entries, each null or a finite number.
C13_CoercedScoresFinite ==
    ~group.isNull =>
        \A d \in {"day1", "day2"} : \A p \in AllPlayers :
            /\ p \in DOMAIN scoresByDay[d]
            /\ Len(scoresByDay[d][p]) = 18
            /\ \A i \in 1..18 : scoresByDay[d][p][i].k \in {"null", "num"}

(***************************************************************************)
(* C14, C15: distances.                                                    *)
(***************************************************************************)
\* the decimal form of a non-negative integer
IsDecimal(s) == s # <<>> /\ \A i \in 1..Len(s) : isDigit(s[i])

\* the text of F feet I inches
FeetInchesText(F, I) == toDigits(F) \o <<"'", " ">> \o toDigits(I) \o <<"\"">>

\* C14: for feet f and inches i given as decimal strings, formatFeetInches
\* yields the text of F feet I inches with F = f + (i div 12) and
\* I = i mod 12, so that I is in 0..11 and 12 F + I = 12 f + i.
C14_FormatNormalizes ==
    (fn = "formatFeetInches" /\ IsDecimal(feetRaw) /\ IsDecimal(inchesRaw)) =>
        LET f == digitsValue(feetRaw)
            i == digitsValue(inchesRaw)
        IN  \E F \in 0..(f + i), I \in 0..11 :
                /\ F = f + (i \div 12)
                /\ I = i % 12
                /\ 12 * F + I = 12 * f + i
                /\ note = FeetInchesText(F, I)

\* 3 feet 14 inches are written as 4' 2"
C14_Witness ==
    /\ fn = "formatFeetInches"
    /\ feetRaw = <<"3">>
    /\ inchesRaw = <<"1", "4">>
    /\ note = <<"4", "'", " ", "2", "\"">>

\* C15: for feet f and inches i < 12, parseFeetInches of the text that
\* formatFeetInches writes gives back f as the feet and i as the inches.
C15_RoundTrip ==
    (fn = "formatFeetInches" /\ IsDecimal(feetRaw) /\ IsDecimal(inchesRaw)
        /\ digitsValue(inchesRaw) < 12) =>
        /\ IsDecimal(distance.feet)
        /\ digitsValue(distance.feet) = digitsValue(feetRaw)
        /\ IsDecimal(distance.inches)
        /\ digitsValue(distance.inches) = digitsValue(inchesRaw)

\* 10 feet 11 inches come back as "10" and "11"
C15_Witness ==
    /\ fn = "formatFeetInches"
    /\ feetRaw = <<"1", "0">>
    /\ inchesRaw = <<"1", "1">>
    /\ note = <<"1", "0", "'", " ", "1", "1", "\"">>
    /\ distance = [feet |-> <<"1", "0">>, inches |-> <<"1", "1">>]

\* the timers of scheduleSave that are set and have not run
SaveTimers == {t \in timers : t.kind = "save"}

\* C16: the calls of scheduleSave that follow one another by less than the
\* delay end in exactly one updateDoc call: at any time the calls that
\* started a burst are as many as the updateDoc calls issued plus the one
\* timer still set, no earlier timer stays set, and the updateDoc call was
\* issued when the delay had passed since the last call, with the patch of
\* that call.
C16_DebouncedSavesCoalesce ==
    /\ Cardinality(SaveTimers) <= 1
    /\ observed.saves + Cardinality(SaveTimers) = observed.bursts
    /\ observed.lastSave.issued =>
           /\ observed.lastSave.patch = observed.lastSave.lastPatch
           /\ observed.lastSave.sinceLastCall >= SaveDelay

\* two calls, the second 200 ms after the first with another patch, and
\* the one updateDoc call of the burst has been issued
C16_Witness ==
    /\ timerCount = 2
    /\ observed.bursts = 1
    /\ observed.saves = 1
    /\ timers = {}
    /\ observed.lastSave.patch.value.byDay["day2"].map[al].elems[1] = FromInt(7)
    /\ \E w \in inflight : w.id = 2 /\ w.kind = "save"

\* the score a text of the input stands for
ScoreOfText(raw) == IF IsDecimal(raw) THEN FromInt(digitsValue(raw)) ELSE Null

\* C19: when the latest snapshot of the group has day1ScoresLocked and Day 1
\* is selected, a change of a score input leaves the local score tables as
\* they are and sets no timer; with Day 2 selected the change is taken into
\* the Day 2 table and a save is scheduled.
C19_Day1Lock ==
    [][(observed'.events # observed.events /\ observed'.lastEvent.kind = "score"
            /\ group.data.day1ScoresLocked) =>
          IF selectedDay = "day1"
          THEN /\ scoresByDay' = scoresByDay
               /\ timers' = timers
               /\ timerCount' = timerCount
               /\ saveTimerRef' = saveTimerRef
               /\ inflight' = inflight
          ELSE /\ scoresByDay'["day2"][observed'.lastEvent.p][observed'.lastEvent.holeIdx]
                      = ScoreOfText(observed'.lastEvent.raw)
               /\ scoresByDay'["day1"] = scoresByDay["day1"]
               /\ \E t \in timers' : t.id = saveTimerRef' /\ t.kind = "save" /\ t.age = 0
      ]_vars

\* two changes of a Day 1 score input under the lock set no timer, and the
\* Day 1 table is the one of the snapshot
C19_Witness ==
    /\ observed.events = 2
    /\ observed.lastEvent.kind = "score"
    /\ timerCount = 0
    /\ selectedDay = "day1"
    /\ ~group.isNull
    /\ group.data.day1ScoresLocked
    /\ scoresByDay["day1"][al] = AllFours

\* the writes of the last fan-out that have not settled
Unsettled == {w.to : w \in {v \in inflight : v.id = observed.lastFanOut.id}}

\* what C17 says of a fan-out whose documents are those of the set groups
FanOutTo(groups) ==
    LET f == observed.lastFanOut
    IN  f.issued =>
            /\ f.to = groups
            /\ Unsettled \cup f.resolved \cup f.failed = f.to
            /\ Unsettled \cap (f.resolved \cup f.failed) = {}
            /\ f.resolved \cap f.failed = {}
            /\ f.resolved \subseteq f.holding
            /\ f.failed # {} =>
                   /\ f.errorAfterFailure # NoError
                   /\ error # NoError

\* C17: when a propagation timer fires, one write is issued for each group
\* whose tournamentId equals that of the group of the page, and for no
\* other; every write that succeeds leaves the entry in its group for the
\* day, so that all groups hold it when all succeed; a write that fails
\* sets the error, takes nothing back and is not issued again.
C17_PropagationFanOut == FanOutTo(observed.lastFanOut.sharing)

\* the same with the groups whose tournamentId equals the trimmed
\* tournamentId of the group of the page
C17_FanOutOfTrimmedId ==
    FanOutTo({g \in GroupIds : db[g].tournamentId = Str(observed.lastFanOut.trimmed)})

\* both writes of a fan-out to the tournament T1 have succeeded
C17_Reached ==
    /\ observed.lastFanOut.issued
    /\ observed.lastFanOut.to = {"g1", "g2"}
    /\ observed.lastFanOut.resolved = {"g1", "g2"}

\* C20: while the tournamentId of the group is missing or blank, no
\* propagation timer is set and no write of a propagation is issued; the
\* entry of every closest-to-the-pin propagation has a note that is not
\* blank, and that of every longest-drive propagation a winner that is not
\* blank.
C20_PropagationGuards ==
    /\ (~group.isNull /\ (group.data.tournamentId.isNull
                             \/ trim(group.data.tournamentId.s) = <<>>)) =>
           /\ \A t \in timers : t.kind = "save"
           /\ \A w \in inflight : w.kind = "save" /\ w.to = groupId
           /\ observed.fanOuts = 0
    /\ \A t \in timers : t.kind = "ctp" =>
           ~t.payload.value.note.isNull /\ trim(t.payload.value.note.s) # <<>>
    /\ \A w \in inflight : w.kind = "ctp" =>
           ~w.value.note.isNull /\ trim(w.value.note.s) # <<>>
    /\ \A t \in timers : t.kind = "ld" =>
           ~t.payload.value.winner.isNull /\ trim(t.payload.value.winner.s) # <<>>
    /\ \A w \in inflight : w.kind = "ld" =>
           ~w.value.winner.isNull /\ trim(w.value.winner.s) # <<>>

\* in a group whose tournamentId is blank a distance has been entered for
\* hole 2 and the longest drive has a winner: a save is scheduled and no
\* propagation
C20_Witness ==
    /\ ~group.isNull
    /\ group.data.tournamentId = Str(<<" ">>)
    /\ observed.events = 2
    /\ contestByDay["day1"].closestToPinByHole[<<"2">>].note = FeetInchesText(5, 0)
    /\ contestByDay["day1"].longestDrive.winner = Bo
    /\ Cardinality(timers) = 1
    /\ timerCount = 2

\* a table of 18 whole numbers from lo to hi
WholeTable(x, lo, hi) ==
    /\ Has18(x)
    /\ \A i \in 1..18 :
          IsWhole(x.elems[i]) /\ x.elems[i].v >= lo * Denom /\ x.elems[i].v <= hi * Denom

\* the numbers a draft is read as, rounded down
FloorsOf(draft) == Arr(floors(numbersOfDraft(draft)))

Blank(draft) == trim(draft) = <<>>

\* the table of a field after saveScorecards has written: as stored when
\* the draft is blank, else the numbers of the draft, which are as the
\* claim says
Written(e, field, draft, numbers, ok) ==
    IF Blank(draft) THEN e.value[field] = e.tournament[field]
    ELSE ok /\ e.value[field] = numbers

\* C18: saveScorecards writes a stroke-index table of a day only when the
\* draft reads as exactly 18 whole numbers from 1 to 18, each once, and a
\* par table only when the draft reads as exactly 18 whole numbers from 3
\* to 6; a table whose draft is blank stays as stored; when a draft that is
\* not blank does not read so, no updateDoc call is issued and an error is
\* shown.
C18_ScorecardsValidated ==
    observed.lastEvent.kind = "scorecards" =>
        \A e \in {observed.lastEvent} :
        \A p1 \in {FloorsOf(e.day1ParsDraft)}, p2 \in {FloorsOf(e.day2ParsDraft)},
           h1 \in {FloorsOf(e.day1HcpsDraft)}, h2 \in {FloorsOf(e.day2HcpsDraft)} :
            /\ e.wrote =>
                /\ Written(e, "day1Pars", e.day1ParsDraft, p1, WholeTable(p1, 3, 6))
                /\ Written(e, "day2Pars", e.day2ParsDraft, p2, WholeTable(p2, 3, 6))
                /\ Written(e, "day1Hcps", e.day1HcpsDraft, h1, IsPermutation(h1))
                /\ Written(e, "day2Hcps", e.day2HcpsDraft, h2, IsPermutation(h2))
            /\ (\/ ~Blank(e.day1ParsDraft) /\ ~WholeTable(p1, 3, 6)
                \/ ~Blank(e.day2ParsDraft) /\ ~WholeTable(p2, 3, 6)
                \/ ~Blank(e.day1HcpsDraft) /\ ~IsPermutation(h1)
                \/ ~Blank(e.day2HcpsDraft) /\ ~IsPermutation(h2)) =>
                /\ ~e.wrote
                /\ \A w \in inflight : w.id # observed.events
                /\ scorecardError # NoError \/ error # NoError

\* the stroke indexes of both days were entered, those of Day 1 one a line
\* with 6.5 for the first; the write has succeeded and the document holds
\* the permutation with 6 for the first hole, and no pars
C18_Witness ==
    /\ observed.lastEvent.kind = "scorecards"
    /\ observed.lastEvent.wrote
    /\ observed.lastEvent.day1HcpsDraft = HcpsDrafts.loose
    /\ observed.lastEvent.day2HcpsDraft = HcpsDrafts.valid
    /\ db[groupId].tournament.day1Hcps = Arr(Permutation(5))
    /\ db[groupId].tournament.day2Hcps = Arr(Identity)
    /\ db[groupId].tournament.day1Pars = NoArray

\* one draft of pars has 17 values: nothing is written and the error of
\* the form is shown
C18_Refused ==
    /\ observed.lastEvent.kind = "scorecards"
    /\ observed.lastEvent.day1ParsDraft = ParsDrafts.short
    /\ observed.lastEvent.day2ParsDraft = ParsDrafts.valid
    /\ ~observed.lastEvent.wrote
    /\ scorecardError = "Enter pars per day"
    /\ inflight = {}

(***************************************************************************)
(* The roster table: moves and renames.                                    *)
(***************************************************************************)
\* two names are equal but for case and surrounding blanks
EqualNames(a, b) == toLowerCase(trim(a)) = toLowerCase(trim(b))

\* the names of a roster equal to a name
Namesakes(roster, name) == {i \in 1..Len(roster) : EqualNames(roster[i], name)}

\* the score array a stored group holds for a name on a day
HeldRow(data, day, name) == coerceScoresByDay(<<name>>, data.scores)[day][name]

OtherDay(day) == IF day = "day1" THEN "day2" ELSE "day1"

\* the name a row is saved under: the name typed, or the name of the row
NameOfEdit(e) ==
    IF ~e.edit.name.isNull /\ trim(e.edit.name.s) # <<>> THEN trim(e.edit.name.s)
    ELSE e.player

\* a call of savePlayerEdits by an administrator, for a row with another
\* foursome chosen, whose player is on the roster of the day in the group
\* of the row, both groups being stored
IsMove(e, store) ==
    /\ e.kind = "savePlayerEdits"
    /\ e.admin
    /\ e.edit.moveToGid \notin {"", e.gid}
    /\ e.gid \in DOMAIN store
    /\ e.edit.moveToGid \in DOMAIN store
    /\ Namesakes(rosterOf(store[e.gid], e.day), e.player) # {}

\* the day's roster and scores of the groups of a move after it, given the
\* groups before it
Moved(e, before, after) ==
    LET A == e.gid
        B == e.edit.moveToGid
        D == e.day
        name == NameOfEdit(e)
        held == rosterOf(before[A], D)[CHOOSE i \in Namesakes(rosterOf(before[A], D), e.player) :
                                          \A j \in Namesakes(rosterOf(before[A], D), e.player) : i <= j]
    IN  /\ Namesakes(rosterOf(after[A], D), e.player) = {}
        /\ Cardinality(Namesakes(rosterOf(after[B], D), name)) = 1
        /\ \E i \in 1..Len(rosterOf(after[B], D)) : rosterOf(after[B], D)[i] = name
        /\ HeldRow(after[B], D, name) = HeldRow(before[A], D, held)
        /\ \A g \in {A, B} :
            /\ rosterOf(after[g], OtherDay(D)) = rosterOf(before[g], OtherDay(D))
            /\ \A p \in Range(rosterOf(before[g], OtherDay(D))) :
                   HeldRow(after[g], OtherDay(D), p) = HeldRow(before[g], OtherDay(D), p)

\* C21: a move of a player on a day from group A to group B whose roster
\* of the day has no equal name changes both groups in one step: the player
\* is off A's roster of the day and once on B's, B holds for the player the
\* score array of the day that A held, and the rosters and scores of the
\* other day are as they were in both groups.
C21_MoveKeepsScores ==
    [][(/\ observed'.events = observed.events + 1
        /\ IsMove(observed'.lastEvent, db)
        /\ observed'.lastEvent.thrown # "unavailable"
        /\ Namesakes(rosterOf(db[observed'.lastEvent.edit.moveToGid], observed'.lastEvent.day),
                     NameOfEdit(observed'.lastEvent)) = {})
       => Moved(observed'.lastEvent, db, db')]_vars

\* the same, for a name of which the other day's roster of B holds no other
\* spelling
C21_MoveKeepsScoresOfOneSpelling ==
    [][(/\ observed'.events = observed.events + 1
        /\ IsMove(observed'.lastEvent, db)
        /\ observed'.lastEvent.thrown # "unavailable"
        /\ Namesakes(rosterOf(db[observed'.lastEvent.edit.moveToGid], observed'.lastEvent.day),
                     NameOfEdit(observed'.lastEvent)) = {}
        /\ \A p \in Range(rosterOf(db[observed'.lastEvent.edit.moveToGid],
                                   OtherDay(observed'.lastEvent.day))) :
               EqualNames(p, NameOfEdit(observed'.lastEvent))
                   => p = NameOfEdit(observed'.lastEvent))
       => Moved(observed'.lastEvent, db, db')]_vars

\* a player has been moved to a foursome whose other day's roster holds
\* another spelling of the name
C21_Reached ==
    /\ observed.lastEvent.kind = "savePlayerEdits"
    /\ observed.lastEvent.branch = "move"
    /\ observed.lastEvent.thrown = NoError
    /\ observed.lastEvent.edit.moveToGid \in DOMAIN db
    /\ Namesakes(rosterOf(db[observed.lastEvent.edit.moveToGid], observed.lastEvent.day),
                 NameOfEdit(observed.lastEvent)) # {}
    /\ \E p \in Range(rosterOf(db[observed.lastEvent.edit.moveToGid],
                               OtherDay(observed.lastEvent.day))) :
           EqualNames(p, NameOfEdit(observed.lastEvent)) /\ p # NameOfEdit(observed.lastEvent)

\* two names are equal but for case
SameButCase(a, b) == toLowerCase(a) = toLowerCase(b)

\* a call of savePlayerEdits by an administrator, for a row with no other
\* foursome chosen and a name typed that differs from the name of the row
\* by more than case, whose player is on a roster of the stored group
IsRename(e, store) ==
    /\ e.kind = "savePlayerEdits"
    /\ e.admin
    /\ e.edit.moveToGid \in {"", e.gid}
    /\ e.gid \in DOMAIN store
    /\ ~EqualNames(NameOfEdit(e), e.player)
    /\ Namesakes(rosterOf(store[e.gid], "day1") \o rosterOf(store[e.gid], "day2"),
                 e.player) # {}

\* the roster in which the name of a saved row must be new: the target's
\* roster of the day for a move, both rosters of the group for a rename
RosterOfName(e, store) ==
    IF IsMove(e, store) THEN rosterOf(store[e.edit.moveToGid], e.day)
    ELSE rosterOf(store[e.gid], "day1") \o rosterOf(store[e.gid], "day2")

AlreadyExists ==
    {"Could not save player: Player already exists in target foursome",
     "Could not save player: Player already exists"}

\* C22: a move whose target roster of the day, or a rename whose group's
\* rosters, hold a name equal but for case to the new name is refused: the
\* step changes no stored group, keeps the edit of the row and shows
\* "Could not save player: ..." with the reason.
C22_DuplicateRefused ==
    [][(/\ observed'.events = observed.events + 1
        /\ observed'.lastEvent.kind = "savePlayerEdits"
        /\ observed'.lastEvent.gid \in DOMAIN allGroups
        /\ IsMove(observed'.lastEvent, db) \/ IsRename(observed'.lastEvent, db)
        /\ \E p \in Range(RosterOfName(observed'.lastEvent, db)) :
               SameButCase(p, NameOfEdit(observed'.lastEvent)))
       => /\ db' = db
          /\ playerEdits' = playerEdits
          /\ error' \in AlreadyExists \cup {"Could not save player: unavailable"}
          /\ error' \in AlreadyExists <=> observed'.lastEvent.thrown # "unavailable"]_vars

\* a move to a foursome that has the name on its roster of the day has been
\* refused, and the edit of the row is kept
C22_Witness ==
    /\ observed.lastEvent.kind = "savePlayerEdits"
    /\ observed.lastEvent.branch = "move"
    /\ IsMove(observed.lastEvent, db)
    /\ \E p \in Range(RosterOfName(observed.lastEvent, db)) :
           SameButCase(p, NameOfEdit(observed.lastEvent))
    /\ error = "Could not save player: Player already exists in target foursome"
    /\ editKey(observed.lastEvent.gid, observed.lastEvent.player) \in DOMAIN playerEdits

\* the same for a rename
C22_RenameRefused ==
    /\ observed.lastEvent.kind = "savePlayerEdits"
    /\ observed.lastEvent.branch = "rename"
    /\ IsRename(observed.lastEvent, db)
    /\ \E p \in Range(RosterOfName(observed.lastEvent, db)) :
           SameButCase(p, NameOfEdit(observed.lastEvent))
    /\ error = "Could not save player: Player already exists"
    /\ editKey(observed.lastEvent.gid, observed.lastEvent.player) \in DOMAIN playerEdits

(***************************************************************************)
(* The handlers of the admin page that write to the store.                 *)
(***************************************************************************)
\* somebody is signed in whose address, in lower case, is on the list of
\* allowed addresses, or the list is empty
MayAdminister ==
    /\ ~adminUser.isNull
    /\ \/ allowedAdminEmails = <<>>
       \/ \E i \in 1..Len(allowedAdminEmails) :
              allowedAdminEmails[i] = toLowerCase(adminUser.s)

\* C23: deletePlayerFromGroup, savePlayerEdits, addPlayerToFoursome,
\* saveScorecards, setDay1ScoresLocked and createNewGroup, called while
\* nobody is signed in or the address signed in is not allowed, write
\* nothing to the store and issue no write: they set the error
\* "Admin access required." and nothing else of the page.
C23_AdminGate ==
    [][~MayAdminister
       => /\ db' = db
          /\ inflight' = inflight
          /\ error' = AdminRequired
          /\ UNCHANGED <<allGroups, playerEdits, addPlayerError, createGroupError,
                         day1LockError, scorecardError, day1ParsDraft, day2ParsDraft,
                         day1HcpsDraft, day2HcpsDraft, group, scoresByDay>>]_vars

\* somebody whose address is not allowed has called createNewGroup with a
\* form that is filled in, and later another handler
C23_Witness ==
    /\ ~adminUser.isNull
    /\ ~MayAdminister
    /\ observed.events = 2
    /\ observed.lastEvent.kind \in {"savePlayerEdits", "deletePlayerFromGroup",
                                    "addPlayerToFoursome", "scorecards"}
    /\ error = AdminRequired
    /\ DOMAIN db = {"g1", "g2"}

\* an administrator on the list of allowed addresses has written to the
\* store with each of the handlers of the roster
C23_AdminWrites ==
    /\ MayAdminister
    /\ allowedAdminEmails # <<>>
    /\ observed.lastEvent.kind \in {"deletePlayerFromGroup", "addPlayerToFoursome",
                                    "createNewGroup"}
    /\ observed.lastEvent.wrote

\* C24: for every score array and every whole totalStrokes, negative ones
\* included, computeNetRunningTotal returns at most the sum of the scores,
\* and exactly that sum when totalStrokes is zero or less, with a
\* stroke-index table and without one.
C24_NetAtMostGross ==
    (fn = "computeNetRunningTotal" /\ IsWhole(totalStrokes)) =>
        /\ result.k = "num"
        /\ result.v <= GrossOf(scores)
        /\ totalStrokes.v <= 0 => result = Num(GrossOf(scores))

\* C24 where it holds: with an 18-entry stroke-index table, for a round
\* that is not complete, and for a totalStrokes of zero or more
C24_NetAtMostGrossButFallback ==
    (fn = "computeNetRunningTotal" /\ IsWhole(totalStrokes)
        /\ (Has18(hcps) \/ ~Complete(scores) \/ totalStrokes.v >= 0)) =>
        /\ result.k = "num"
        /\ result.v <= GrossOf(scores)
        /\ totalStrokes.v <= 0 => result = Num(GrossOf(scores))

\* a complete round without a stroke-index table and a negative whole
\* totalStrokes, as a handicap of "-2" typed on the admin page gives
C24_Reached ==
    /\ fn = "computeNetRunningTotal"
    /\ ~Has18(hcps)
    /\ Complete(scores)
    /\ totalStrokes = safeNumber(<<"-", "2">>)
    /\ result.v > GrossOf(scores)

(***************************************************************************)
(* The scoring table of the selected day.                                  *)
(***************************************************************************)
players == IF selectedDay = "day1" THEN playersDay1 ELSE playersDay2

dayHcps ==
    LET stored == IF selectedDay = "day1" THEN group.data.tournament.day1Hcps
                  ELSE group.data.tournament.day2Hcps
    IN  IF stored.isArray /\ Len(stored.elems) = HOLE_COUNT THEN stored ELSE NoArray

\* base + adj + teeBonus of a row of the table; the variant leaves the
\* adjustment out
allocationStrokesNoAdjustment(p) ==
    plus(valueOr(handicaps, p, FromInt(0)),
         teeBonusForDay(selectedDay, valueOr(teeChoicesByDay[selectedDay], p, "")))

allocationStrokes(p) ==
    LET base == valueOr(handicaps, p, FromInt(0))
        adj == IF selectedDay = "day2" THEN valueOr(day2Adjustments, p, FromInt(0))
               ELSE FromInt(0)
        teeBonus == teeBonusForDay(selectedDay, valueOr(teeChoicesByDay[selectedDay], p, ""))
    IN  plus(plus(base, adj), teeBonus)

\* the 'Total Net' of every player of the selected day
netTotals ==
    [p \in Range(players) |->
        LET charity_ == valueOr(charityStrokes, p, FromInt(0))
            tree == valueOr(treeStrokes, p, FromInt(0))
            netBeforeCharity ==
                computeNetRunningTotal(
                    valueOr(scoresByDay[selectedDay], p, [i \in 1..HOLE_COUNT |-> Null]),
                    dayHcps, allocationStrokes(p))
        IN  applyCharityAtEnd(netBeforeCharity,
                              valueOr(scoresByDay[selectedDay], p, <<>>),
                              plus(charity_, tree))]

\* C25: for every player of the selected day the 'Total Net' of the scoring
\* table is the net of the player's row in the leaderboard of that day, and
\* the table and the leaderboard hold the same players.
C25_NetsAgree ==
    LET board == IF selectedDay = "day1" THEN day1Leaderboard ELSE day2Leaderboard
        totals == netTotals
    IN  /\ \A i \in 1..Len(board) :
               /\ board[i].player \in DOMAIN totals
               /\ totals[board[i].player] = board[i].net
        /\ \A p \in DOMAIN totals : \E i \in 1..Len(board) : board[i].player = p

\* day 2 is selected; al has finished the round and plays off 10 with an
\* adjustment of -2, a tee and two penalty strokes: 72 - 8 - 2
C25_Witness ==
    /\ ~group.isNull
    /\ selectedDay = "day2"
    /\ isTable(group.data.tournament.day2Hcps)
    /\ al \in DOMAIN netTotals
    /\ al \in DOMAIN handicaps
    /\ handicaps[al] = FromInt(10) /\ day2Adjustments[al] = FromInt(-2)
    /\ teeChoicesByDay.day2[al] = "four"
    /\ netTotals[al] = FromInt(62)
    /\ \E i \in 1..Len(day2Leaderboard) :
           day2Leaderboard[i].player = al /\ day2Leaderboard[i].net = FromInt(62)

(***************************************************************************)
(* The edits of the scoring page and the stored document.                  *)
(***************************************************************************)
\* the document holds the edit as the page would store it
HoldsEdit(doc, e) ==
    CASE e.field = "scores" ->
            LET table == doc.scores.byDay[e.day]
            IN  /\ table.isObject
                /\ e.key[1] \in DOMAIN table.map
                /\ table.map[e.key[1]].elems[e.key[2]] = e.value
      [] e.field = "closestToPinByHole" ->
            LET stored == doc.contest[e.day].closestToPinByHole
                held == stored.isObject /\ e.key \in DOMAIN stored.map
            IN  IF e.value.winner.isNull /\ e.value.note.isNull
                THEN ~held
                ELSE held /\ stored.map[e.key] = e.value
      [] e.field = "longestDrive" ->
            doc.contest[e.day].longestDrive.winner = e.value.winner

\* no timer is set, no write is pending and no write has failed
AtRest == timers = {} /\ inflight = {} /\ error = NoError

\* C26: when the page is at rest after the save of a burst of edits (edits
\* less than the delay of scheduleSave apart), the group document holds
\* every edit of the burst, whether or not a snapshot arrived between them.
C26_NoEditLost ==
    (AtRest /\ observed.saves = 1) =>
        \A e \in observed.edits : HoldsEdit(db[groupId], e)

\* C26 for the edits that the patch of the save carried: the document
\* holds them
C26_EditsOfTheLastPatchHeld ==
    (AtRest /\ observed.saves = 1) =>
        \A e \in observed.edits :
            HoldsEdit(applyWrite(db[groupId], observed.lastSave.patch), e)
                => HoldsEdit(db[groupId], e)

\* a score and a contest entry were edited in one burst, the save has
\* succeeded, and the document does not hold the score
C26_Reached ==
    /\ AtRest
    /\ observed.saves = 1
    /\ observed.bursts = 1
    /\ \E e, f \in observed.edits :
           /\ e.field = "scores"
           /\ f.field # "scores"
           /\ ~HoldsEdit(db[groupId], e)
           /\ HoldsEdit(db[groupId], f)

\* the stored Day 1 score table of a document
StoredDay1(doc) ==
    IF doc.scores.isObject /\ "day1" \in DOMAIN doc.scores.byDay
    THEN doc.scores.byDay["day1"] ELSE NoObject

\* C28: while the latest snapshot of the scoring page has day1ScoresLocked,
\* no write of the page changes the stored Day 1 score table, a save
\* scheduled before the lock was seen included.
C28_LockedDay1Kept ==
    [][(~group.isNull /\ group.data.day1ScoresLocked) =>
           StoredDay1(db'[groupId]) = StoredDay1(db[groupId])]_vars

\* C28 for the local state: while the snapshot has the lock, the Day 1
\* table of the page changes with a snapshot only, never with an input
C28_NoDay1EditUnderLock ==
    [][(~group.isNull /\ group.data.day1ScoresLocked) =>
           scoresByDay'["day1"] = scoresByDay["day1"] \/ group' # group]_vars

\* the page has seen the lock, and the stored Day 1 table is no longer the
\* one of that snapshot: the save of an earlier edit has been written
C28_Reached ==
    /\ ~group.isNull
    /\ group.data.day1ScoresLocked
    /\ db[groupId].day1ScoresLocked
    /\ observed.saves = 1
    /\ inflight = {}
    /\ StoredDay1(db[groupId]) # StoredDay1(group.data)

\* the groups whose stored tournamentId is that of the group of the page
SameTournament == {g \in GroupIds : db[g].tournamentId = db[groupId].tournamentId}

\* the edits of the burst that gave a closest-to-the-pin row a distance
DistanceEdits ==
    {e \in observed.edits : e.field = "closestToPinByHole" /\ ~e.value.note.isNull}

\* C27: when the rows of two par 3 holes were given a distance in one
\* burst of edits (less than 400 ms apart, so within 700 ms), the group has
\* a tournamentId and nothing failed, then once the propagation has fired
\* and its writes have resolved every group of the tournament holds the
\* entries of both holes.
C27_BothHolesPropagated ==
    (AtRest /\ observed.fanOuts = 1 /\ observed.saves = 1) =>
        \A e \in DistanceEdits : \A g \in SameTournament : HoldsEdit(db[g], e)

\* C27 for the row edited last: every group of the tournament holds it
C27_LastHolePropagated ==
    (AtRest /\ observed.fanOuts = 1 /\ observed.saves = 1
        /\ observed.lastEvent.kind = "ctp") =>
        \A e \in DistanceEdits :
            e.key = observed.lastEvent.holeKey =>
                \A g \in SameTournament : HoldsEdit(db[g], e)

\* holes 2 and 5 were given a distance in one burst, one propagation has
\* fired and resolved, and the other group of the tournament holds the
\* entry of one hole only
C27_Reached ==
    /\ AtRest
    /\ observed.fanOuts = 1
    /\ observed.saves = 1
    /\ SameTournament = {"g1", "g2"}
    /\ {e.key : e \in DistanceEdits} = {<<"2">>, <<"5">>}
    /\ \A e \in DistanceEdits : HoldsEdit(db["g1"], e)
    /\ \E e \in DistanceEdits : ~HoldsEdit(db["g2"], e)
    /\ \E e \in DistanceEdits : HoldsEdit(db["g2"], e)

====
